---- MODULE Spec2Model ----
(***************************************************************************)
(* padecer: the concurrent certificate scan pipeline                       *)
(* (internal/scanner/scanner.go) and the shutdown coordinator              *)
(* (internal/shutdown/manager.go).                                         *)
(*                                                                         *)
(* Strings are sequences of one-character strings, so that the path        *)
(* checks (strings.Contains, filepath.Clean, the suffix test of            *)
(* ShouldProcessFile) are computed and not assumed.                        *)
(***************************************************************************)
EXTENDS Integers, Sequences, FiniteSets, Bags, TLC

\* ------------------------------------------------------------------------
\* Sizes.  The source runs 10 workers over channels of capacity 100 and
\* walks 20 levels deep; the model keeps the same code with smaller sizes.
\* ------------------------------------------------------------------------
workers == 2
BuffSize == 1
MaxDepth == 1
\* number of goroutines that use a Manager in the coordinator-only runs
MaxClients == 2
\* number of units of work each such goroutine registers
MaxUnits == 1
\* number of Shutdown() calls in a run
MaxShutdownCalls == 2
\* the largest timeout a Manager is made with, in ticks of the clock
MaxTimeout == 2
\* the last instant of a coordinator-only run
MaxClock == 3
\* the largest number of PEM blocks in a buffer given to ParseData directly
MaxBlocks == 3
\* number of POST /alerts requests the dashboard server receives in a run
MaxRequests == 2
\* the longest path given to validatePath directly
MaxPathLen == 4
\* the longest file name given to ShouldProcessFile directly
MaxNameLen == 3
\* the largest number of extensions in the list given to ShouldProcessFile
MaxExts == 2

\* ------------------------------------------------------------------------
\* Strings and paths
\* ------------------------------------------------------------------------
Separator == "/"

\* strings.Contains(s, "..")
ContainsDotDot(s) ==
    \E i \in 1..(Len(s) - 1) : s[i] = "." /\ s[i + 1] = "."

\* strings.HasSuffix(s, string(filepath.Separator))
HasSeparatorSuffix(s) == Len(s) > 0 /\ s[Len(s)] = Separator

RECURSIVE SplitSegments(_, _, _)
\* the segments of a path between separators (empty segments included)
SplitSegments(s, cur, acc) ==
    IF s = <<>> THEN Append(acc, cur)
    ELSE IF Head(s) = Separator
         THEN SplitSegments(Tail(s), <<>>, Append(acc, cur))
         ELSE SplitSegments(Tail(s), Append(cur, Head(s)), acc)

RECURSIVE CleanSegments(_, _, _)
\* lexical processing of filepath.Clean: drop empty and "." segments,
\* resolve ".." against the preceding segment
CleanSegments(segs, rooted, out) ==
    IF segs = <<>> THEN out
    ELSE LET s == Head(segs) IN
         IF s = <<>> \/ s = <<".">>
         THEN CleanSegments(Tail(segs), rooted, out)
         ELSE IF s = <<".", ".">>
         THEN IF Len(out) > 0 /\ out[Len(out)] # <<".", ".">>
              THEN CleanSegments(Tail(segs), rooted, SubSeq(out, 1, Len(out) - 1))
              ELSE IF rooted
                   THEN CleanSegments(Tail(segs), rooted, out)
                   ELSE CleanSegments(Tail(segs), rooted, Append(out, s))
         ELSE CleanSegments(Tail(segs), rooted, Append(out, s))

RECURSIVE JoinSegments(_)
JoinSegments(segs) ==
    IF segs = <<>> THEN <<>>
    ELSE IF Len(segs) = 1 THEN Head(segs)
    ELSE Head(segs) \o <<Separator>> \o JoinSegments(Tail(segs))

\* filepath.Clean(path)
Clean(path) ==
    IF path = <<>> THEN <<".">>
    ELSE LET rooted == Head(path) = Separator
             body   == JoinSegments(CleanSegments(SplitSegments(path, <<>>, <<>>), rooted, <<>>))
             out    == IF rooted THEN <<Separator>> \o body ELSE body
         IN  IF out = <<>> THEN <<".">> ELSE out

\* filepath.Join(rootPath, name)
Join(rootPath, name) == Clean(rootPath \o <<Separator>> \o name)

NoError == <<>>

\* a validatePath that does not exempt the paths ending with the separator
validatePathNoSuffixExemption(path) ==
    IF ContainsDotDot(path) THEN <<"path traversal detected">>
    ELSE IF Clean(path) # path
         THEN <<"suspicious path detected">>
         ELSE NoError

\* Scanner.validatePath: the error it returns, NoError for nil
validatePath(path) ==
    IF ContainsDotDot(path) THEN <<"path traversal detected">>
    ELSE IF Clean(path) # path /\ ~HasSeparatorSuffix(path)
         THEN <<"suspicious path detected">>
         ELSE NoError

\* a ShouldProcessFile that tries only the first extension of the list
ShouldProcessFileFirstOnly(f, ext) ==
    IF Len(ext) = 0 THEN TRUE
    ELSE /\ Len(f) >= Len(ext[1])
         /\ SubSeq(f, Len(f) - Len(ext[1]) + 1, Len(f)) = ext[1]

\* Parser.ShouldProcessFile(f, ext)
ShouldProcessFile(f, ext) ==
    IF Len(ext) = 0 THEN TRUE
    ELSE \E i \in 1..Len(ext) :
            /\ Len(f) >= Len(ext[i])
            /\ SubSeq(f, Len(f) - Len(ext[i]) + 1, Len(f)) = ext[i]

\* ------------------------------------------------------------------------
\* The file system the scan runs over
\* ------------------------------------------------------------------------
\* file size limit of ParseFileWithContext (the source allows 100 MB)
MaxFileSize == 2

Root == <<"/", "r">>
EmptyRoot == <<"/", "m">>
Name_a == <<"a", ".", "p">>
Name_b == <<"b", ".", "p">>
Name_c == <<"c", ".", "p">>
Name_k == <<"k", ".", "t">>
Name_d == <<"d">>
Name_u == <<"u">>
Name_v == <<"v", ".", ".">>

RECURSIVE DeepDir(_)
\* the directory k levels below /r: /r, /r/d, /r/d/d, ...
DeepDir(k) == IF k = 0 THEN Root ELSE DeepDir(k - 1) \o <<Separator>> \o Name_d

\* the directories of the tree that hold b.p and c.p, and those between
\* /r and them
Dir_b == DeepDir(MaxDepth)
Dir_c == DeepDir(MaxDepth + 1)
ChainDirs == { DeepDir(k) : k \in 1..MaxDepth }

File_a == Join(Root, Name_a)
File_b == Join(Dir_b, Name_b)
File_c == Join(Dir_c, Name_c)
File_k == Join(Root, Name_k)

\* a directory entry as os.ReadDir reports it
Entry(name, isDir) == [name |-> name, isDir |-> isDir]

\* os.ReadDir(path): entries sorted by name, or an error.  The tree is
\*   /m                empty
\*   /r                a.p  d/  k.t  u/ (cannot be listed)  v../
\*   /r/d/.../d        MaxDepth levels below /r:      b.p  d/
\*   /r/d/.../d/d      MaxDepth + 1 levels below /r:  c.p
\* and the directories between /r and the first of these hold only d/.
ReadDir(path) ==
    LET c == Clean(path) IN
    IF c = EmptyRoot
    THEN [err |-> NoError, entries |-> << >>]
    ELSE IF c = Dir_c
    THEN [err |-> NoError, entries |-> << Entry(Name_c, FALSE) >>]
    ELSE IF c = Dir_b
    THEN [err |-> NoError, entries |-> << Entry(Name_b, FALSE), Entry(Name_d, TRUE) >>]
    ELSE IF c = Root
    THEN [err |-> NoError,
          entries |-> << Entry(Name_a, FALSE), Entry(Name_d, TRUE), Entry(Name_k, FALSE),
                         Entry(Name_u, TRUE), Entry(Name_v, TRUE) >>]
    ELSE IF c \in ChainDirs
    THEN [err |-> NoError, entries |-> << Entry(Name_d, TRUE) >>]
    ELSE [err |-> <<"permission denied">>, entries |-> << >>]

\* the extension allow-list the Scanner is built with
ScanExt == << <<".", "p">> >>

\* the root lists a scan is started with
RootLists ==
    { << EmptyRoot >>,
      << Root >>,
      << DeepDir(1) \o <<Separator>>, EmptyRoot >> }

\* A certificate as x509.ParseCertificate sees a DER payload: valid or not,
\* and for a valid one its serial number, names and expiration (in hours).
Der(valid, serial, notAfter) ==
    [valid |-> valid, serial |-> serial, notAfter |-> notAfter,
     subject |-> "CN=s", issuer |-> "CN=i"]
BadDer == Der(FALSE, 0, 0)

\* a PEM block
Block(type, der) == [type |-> type, der |-> der]

\* file content: its PEM blocks in order and what the whole buffer is as DER
Data(blocks, raw) == [blocks |-> blocks, raw |-> raw]

\* a file: whether os.Stat succeeds, its size, how os.ReadFile behaves
\* ("ok", "err", "slow": may take longer than the deadline, "hang": never
\* completes) and its content
FileOf(stat, size, read, data) == [stat |-> stat, size |-> size, read |-> read, data |-> data]

GoodPem == Data(<< Block("CERTIFICATE", Der(TRUE, 1, 2400)) >>, BadDer)
ChainPem == Data(<< Block("CERTIFICATE", Der(TRUE, 1, 2400)),
                     Block("CERTIFICATE", Der(TRUE, 2, 240)) >>, BadDer)
BadPem == Data(<< Block("CERTIFICATE", BadDer) >>, BadDer)

GoodFile == FileOf(TRUE, 1, "ok", GoodPem)
ChainFile == FileOf(TRUE, MaxFileSize, "ok", ChainPem)
StatErrFile == FileOf(FALSE, 0, "ok", GoodPem)
BigFile == FileOf(TRUE, MaxFileSize + 1, "ok", GoodPem)
ReadErrFile == FileOf(TRUE, 1, "err", GoodPem)
BadFile == FileOf(TRUE, 1, "ok", BadPem)
SlowFile == FileOf(TRUE, 1, "slow", GoodPem)
HangFile == FileOf(TRUE, 1, "hang", GoodPem)

\* what the files /r/a.p, /r/d/b.p and /r/d/e/c.p are in a run
FilesOf(a, b, c) ==
    [f \in {File_a, File_b, File_c} |->
        IF f = File_a THEN a ELSE IF f = File_b THEN b ELSE c]

FileSystems ==
    { FilesOf(GoodFile, ChainFile, GoodFile),
      FilesOf(BadFile, GoodFile, GoodFile),
      FilesOf(HangFile, GoodFile, GoodFile),
      FilesOf(StatErrFile, BigFile, GoodFile),
      FilesOf(ReadErrFile, SlowFile, GoodFile) }

\* ------------------------------------------------------------------------
\* Errors.  An error is the chain of its messages, outermost first;
\* fmt.Errorf("...: %w", err) puts one message in front of err.  Go's
\* err == target compares the error values, so a wrapped error is not
\* equal to the error it wraps.
\* ------------------------------------------------------------------------
ErrDeadlineExceeded == <<"context deadline exceeded">>
ErrCanceled == <<"context canceled">>
Wrap(msg, err) == <<msg>> \o err

\* ------------------------------------------------------------------------
\* Certificate Parser
\* ------------------------------------------------------------------------
\* Go's int(x / 24): conversion to int truncates toward zero
TruncDiv(a, b) == IF a >= 0 THEN a \div b ELSE -((-a) \div b)

\* a buildCertificateInfo whose threshold test is days < daysThreshold
buildCertificateInfoBelowThreshold(prs, fp, cert, now) ==
    LET days == TruncDiv(cert.notAfter - now, 24) IN
    [Path            |-> fp,
     ExpirationDate  |-> cert.notAfter,
     DaysUntilExpiry |-> days,
     IsExpired       |-> cert.notAfter < now,
     IsExpiringSoon  |-> days < prs.daysThreshold /\ days >= 0,
     SerialNumber    |-> cert.serial,
     Subject         |-> IF prs.includeSubject THEN cert.subject ELSE "",
     Issuer          |-> IF prs.includeSubject THEN cert.issuer ELSE ""]

\* Parser.buildCertificateInfo(fp, cert), with now the value of time.Now()
buildCertificateInfo(prs, fp, cert, now) ==
    LET days == TruncDiv(cert.notAfter - now, 24) IN
    [Path            |-> fp,
     ExpirationDate  |-> cert.notAfter,
     DaysUntilExpiry |-> days,
     IsExpired       |-> cert.notAfter < now,
     IsExpiringSoon  |-> days <= prs.daysThreshold /\ days >= 0,
     SerialNumber    |-> cert.serial,
     Subject         |-> IF prs.includeSubject THEN cert.subject ELSE "",
     Issuer          |-> IF prs.includeSubject THEN cert.issuer ELSE ""]

ParseError == Wrap("failed to parse certificate: %w", <<"x509: malformed certificate">>)

RECURSIVE ParsePemBlocksStopAtOther(_, _, _, _, _)
\* a PEM loop that ends at the first block that is not a CERTIFICATE
ParsePemBlocksStopAtOther(prs, fp, remaining, certs, times) ==
    IF Len(remaining) = 0 THEN [certs |-> certs, err |-> NoError]
    ELSE LET block == Head(remaining) IN
         IF block.type = "CERTIFICATE"
         THEN IF ~block.der.valid
              THEN [certs |-> <<>>, err |-> ParseError]
              ELSE ParsePemBlocksStopAtOther(prs, fp, Tail(remaining),
                       Append(certs, buildCertificateInfo(prs, fp, block.der, times[Len(certs) + 1])),
                       times)
         ELSE [certs |-> certs, err |-> NoError]

RECURSIVE ParsePemBlocksKeepsEarlier(_, _, _, _, _)
\* a PEM loop that returns the records built so far with the parse error
ParsePemBlocksKeepsEarlier(prs, fp, remaining, certs, times) ==
    IF Len(remaining) = 0 THEN [certs |-> certs, err |-> NoError]
    ELSE LET block == Head(remaining) IN
         IF block.type = "CERTIFICATE"
         THEN IF ~block.der.valid
              THEN [certs |-> certs, err |-> ParseError]
              ELSE ParsePemBlocksKeepsEarlier(prs, fp, Tail(remaining),
                       Append(certs, buildCertificateInfo(prs, fp, block.der, times[Len(certs) + 1])),
                       times)
         ELSE ParsePemBlocksKeepsEarlier(prs, fp, Tail(remaining), certs, times)

RECURSIVE ParsePemBlocks(_, _, _, _, _)
\* the PEM loop of ParseData; times[i] is time.Now() at the i-th record built
ParsePemBlocks(prs, fp, remaining, certs, times) ==
    IF Len(remaining) = 0 THEN [certs |-> certs, err |-> NoError]
    ELSE LET block == Head(remaining) IN
         IF block.type = "CERTIFICATE"
         THEN IF ~block.der.valid
              THEN [certs |-> <<>>, err |-> ParseError]
              ELSE ParsePemBlocks(prs, fp, Tail(remaining),
                       Append(certs, buildCertificateInfo(prs, fp, block.der, times[Len(certs) + 1])),
                       times)
         ELSE ParsePemBlocks(prs, fp, Tail(remaining), certs, times)

NoCertificatesError == <<"no certificates found in file">>

\* Parser.ParseData(fp, data): the PEM loop, the DER attempt when the loop
\* built no record, the final test of len(certs)
ParseData(prs, fp, data, times) ==
    LET pem == ParsePemBlocks(prs, fp, data.blocks, <<>>, times) IN
    IF pem.err # NoError THEN pem
    ELSE LET der == IF Len(pem.certs) = 0
                    THEN IF ~data.raw.valid
                         THEN [certs |-> <<>>, err |-> ParseError]
                         ELSE [certs |-> << buildCertificateInfo(prs, fp, data.raw, times[1]) >>,
                               err |-> NoError]
                    ELSE pem
         IN  IF der.err # NoError THEN der
             ELSE IF Len(der.certs) = 0
                  THEN [certs |-> <<>>, err |-> NoCertificatesError]
                  ELSE der

SizeError == <<"file size exceeds maximum allowed size of %d bytes">>

\* a size check that also rejects a file of exactly MaxFileSize bytes
StatAndSizeErrorAtLimit(file) ==
    IF ~file.stat THEN Wrap("failed to stat file: %w", <<"no such file or directory">>)
    ELSE IF file.size >= MaxFileSize THEN SizeError ELSE NoError

\* ParseFileWithContext up to the read: os.Stat and the size check
StatAndSizeError(file) ==
    IF ~file.stat THEN Wrap("failed to stat file: %w", <<"no such file or directory">>)
    ELSE IF file.size > MaxFileSize THEN SizeError ELSE NoError

\* ParseFileWithContext after readFileWithContext returned (data, readErr)
ParseAfterRead(prs, fp, file, readErr, now) ==
    IF readErr # NoError
    THEN [certs |-> <<>>, err |-> Wrap("failed to read file: %w", readErr)]
    ELSE ParseData(prs, fp, file.data, [i \in 1..(Len(file.data.blocks) + 1) |-> now])

\* a ScanResult; fp records the file it is the outcome of (in the source it
\* is part of the error text and of every CertificateInfo)
ScanResult(fp, certInfos, error) == [fp |-> fp, CertInfos |-> certInfos, Error |-> error]
TimeoutError == <<"timeout parsing %s after %v">>
CancellationError == <<"cancelled parsing %s">>

\* Scanner.processFileWithContext: the result built from what
\* ParseFileWithContext returned
processFileResult(fp, certInfos, err) ==
    IF err # NoError
    THEN IF err = ErrDeadlineExceeded THEN ScanResult(fp, <<>>, TimeoutError)
         ELSE IF err = ErrCanceled THEN ScanResult(fp, <<>>, CancellationError)
         ELSE ScanResult(fp, <<>>, Wrap("failed to parse %s: %w", err))
    ELSE ScanResult(fp, certInfos, NoError)

\* ------------------------------------------------------------------------
\* Configuration (config.Config)
\* ------------------------------------------------------------------------
\* a time.Duration: a count of nanoseconds, written as a number and its unit
Nanoseconds(n) == [n |-> n, unit |-> "ns"]
Seconds(n) == [n |-> n, unit |-> "s"]

\* the values of a JSON document
JValue(kind, num, str, bool, arr) ==
    [kind |-> kind, num |-> num, str |-> str, bool |-> bool, arr |-> arr]
JNumber(n) == JValue("number", n, "", FALSE, <<>>)
JString(str) == JValue("string", 0, str, FALSE, <<>>)
JBool(b) == JValue("bool", 0, "", b, <<>>)
JArray(arr) == JValue("array", 0, "", FALSE, arr)
\* the key is not in the document
JAbsent == JValue("absent", 0, "", FALSE, <<>>)

\* a configuration file: whether os.ReadFile finds it, whether its content
\* is JSON, and the value the JSON object gives to each key of Config
ConfigDoc(days, paths, includeSubject, sendTo, shutdownTimeout, extensions) ==
    [days |-> days, paths |-> paths, includeSubject |-> includeSubject,
     sendTo |-> sendTo, shutdownTimeout |-> shutdownTimeout, extensions |-> extensions]
EmptyDoc == ConfigDoc(JAbsent, JAbsent, JAbsent, JAbsent, JAbsent, JAbsent)
ConfigFileOf(exists, valid, doc) == [exists |-> exists, valid |-> valid, doc |-> doc]
NoConfigFile == ConfigFileOf(FALSE, FALSE, EmptyDoc)

\* config.New()
New ==
    [Days |-> 30,
     Paths |-> <<"/etc/ssl/certs", "/etc/pki", "/var/lib/kubelet/pki">>,
     APaths |-> <<>>,
     IncludeSubject |-> FALSE,
     SendTo |-> "",
     ConfigFile |-> "",
     ShutdownTimeout |-> Seconds(30),
     Extensions |-> <<".pem", ".cer", ".crt", ".key">>]

\* the zero value of Config, which json.Unmarshal fills
ZeroConfig ==
    [Days |-> 0, Paths |-> <<>>, APaths |-> <<>>, IncludeSubject |-> FALSE, SendTo |-> "",
     ConfigFile |-> "", ShutdownTimeout |-> Nanoseconds(0), Extensions |-> <<>>]

\* json.Unmarshal(data, &fileCfg) on a JSON object: a value of the kind the
\* field's Go type takes is stored (a number for int and for time.Duration,
\* which is an int64 of nanoseconds), a value of another kind is skipped and
\* makes Unmarshal return an UnmarshalTypeError, an absent key leaves the field
Unmarshal(doc) ==
    LET Fits(v, kind) == v.kind \in {kind, "absent"}
        typed == /\ Fits(doc.days, "number")
                 /\ Fits(doc.paths, "array")
                 /\ Fits(doc.includeSubject, "bool")
                 /\ Fits(doc.sendTo, "string")
                 /\ Fits(doc.shutdownTimeout, "number")
                 /\ Fits(doc.extensions, "array")
    IN  [cfg |-> [ZeroConfig EXCEPT
                    !.Days = IF doc.days.kind = "number" THEN doc.days.num ELSE @,
                    !.Paths = IF doc.paths.kind = "array" THEN doc.paths.arr ELSE @,
                    !.IncludeSubject = IF doc.includeSubject.kind = "bool"
                                       THEN doc.includeSubject.bool ELSE @,
                    !.SendTo = IF doc.sendTo.kind = "string" THEN doc.sendTo.str ELSE @,
                    !.ShutdownTimeout = IF doc.shutdownTimeout.kind = "number"
                                        THEN Nanoseconds(doc.shutdownTimeout.num) ELSE @,
                    !.Extensions = IF doc.extensions.kind = "array"
                                   THEN doc.extensions.arr ELSE @],
         err |-> IF typed THEN NoError
                 ELSE <<"json: cannot unmarshal value into Go struct field of Config">>]

\* Config.LoadFromFile: the Config and the error after the call
LoadFromFile(c, file) ==
    IF ~file.exists
    THEN [cfg |-> c, err |-> <<"open: no such file or directory">>]
    ELSE IF ~file.valid
    THEN [cfg |-> c, err |-> <<"invalid character looking for beginning of value">>]
    ELSE LET out == Unmarshal(file.doc) IN
         IF out.err # NoError
         THEN [cfg |-> c, err |-> out.err]
         ELSE [cfg |-> [c EXCEPT !.Days = out.cfg.Days,
                                 !.Paths = out.cfg.Paths,
                                 !.IncludeSubject = out.cfg.IncludeSubject,
                                 !.SendTo = out.cfg.SendTo,
                                 !.ShutdownTimeout = out.cfg.ShutdownTimeout,
                                 !.Extensions = out.cfg.Extensions],
               err |-> NoError]

\* ------------------------------------------------------------------------
\* Shutdown coordinator (shutdown.Manager)
\* ------------------------------------------------------------------------
\* a Shutdown that flips the flag instead of clearing it
ShutdownToggles(m) == [m EXCEPT !.running = ~@]

\* NewManager: t is kept, running is stored true, the WaitGroup counter is zero
NewManager(t) == [t |-> t, running |-> TRUE, wg |-> 0]
\* a Shutdown that also forgets the registered work
ShutdownClearsCounter(m) == [m EXCEPT !.running = FALSE, !.wg = 0]
\* Manager.Shutdown
Shutdown(m) == [m EXCEPT !.running = FALSE]
\* Manager.IsShuttingDown
IsShuttingDown(m) == ~m.running
\* an Add that loses its update when another unit is already registered
AddLosesUpdate(m, delta) == [m EXCEPT !.wg = IF @ > 0 THEN @ ELSE @ + delta]

\* Manager.Add
Add(m, delta) == [m EXCEPT !.wg = @ + delta]
\* Manager.Done
Done(m) == [m EXCEPT !.wg = @ - 1]

\* sync.WaitGroup.Wait returning one Done() too early
WaitGroupAlmostReleased(counter) == counter <= 1

\* sync.WaitGroup.Wait returns when the counter is zero
WaitGroupReleased(counter) == counter = 0

\* ------------------------------------------------------------------------
\* State
\* ------------------------------------------------------------------------
VARIABLES
    paths,          \* Scan's argument: the root paths
    files,          \* the content of the files on disk
    prs,            \* the Parser: includeSubject, daysThreshold
    clock,          \* time.Now(): hours in a scan, ticks in a coordinator-only run
    mgr,            \* the shutdown.Manager: running flag, WaitGroup counter
    cancelled,      \* ctx.Done() of the pipeline's context is closed
    fileCh,         \* the path channel's buffer
    fileClosed,     \* number of close(fileCh) executed
    resultCh,       \* the result channel's buffer
    resultClosed,   \* number of close(resultCh) executed
    scanWg,         \* counter of Scan's sync.WaitGroup
    walker,         \* the walker goroutine: "walk" or "returned"
    rootIdx,        \* walkPaths: index of the next root path
    stack,          \* the active walkPath call frames, outermost first
    pc,             \* each worker's position in processFiles
    cur,            \* each worker's fp
    res,            \* each worker's result
    closer,         \* the goroutine of Scan that closes resultCh
    caller,         \* the caller's receive loop over the result channel
    inHand,         \* the result the caller has just received
    received,       \* bag of the results the caller has handled
    enqueued,       \* bag of the paths sent on fileCh
    owed,           \* per worker: paths received minus results built
    panicked,       \* a goroutine sent on, or closed, a closed channel
    warnings,       \* the warnings logged by the walker
    shutdownCalls,  \* number of Shutdown() calls made
    client,         \* coordinator-only runs: each goroutine's position
    units,          \* coordinator-only runs: units of work each has finished
    waitCall,       \* Manager.Wait: the calling goroutine's position
    waitGo,         \* Manager.Wait: the goroutine that waits on the WaitGroup
    timer,          \* Manager.Wait: the instant at which time.After(m.t) fires
    call,           \* a direct call of Parser.ParseData: its arguments, the
                    \* values time.Now() returned in it, what it returned
    zeroAt,         \* the last instant, since Wait was called, at which the
                    \* WaitGroup counter was or became zero; -1 if there is none
    proc,           \* main: the Manager it made, the configured shutdown
                    \* timeout, where the signal handler and main are
    alertsFile,     \* the dashboard server: the alerts stored in alerts.json
    handlers        \* the dashboard server: the requests being handled

vars == << paths, files, prs, clock, mgr, cancelled, fileCh, fileClosed, resultCh,
           resultClosed, scanWg, walker, rootIdx, stack, pc, cur, res, closer, caller,
           inHand, received, enqueued, owed, panicked, warnings,
           shutdownCalls, client, units, waitCall, waitGo, timer, zeroAt, call,
           proc, alertsFile, handlers >>

inputVars == << paths, files, prs, clock, call >>
appVars == << proc, alertsFile, handlers >>
walkVars == << walker, rootIdx, stack, warnings >>
workerVars == << pc, cur, res, owed >>
callerVars == << caller, inHand, received >>
coordVars == << client, units, waitCall, waitGo, shutdownCalls, timer, zeroAt >>

Workers == 1..workers
Clients == 1..MaxClients
NoResult == ScanResult(<<>>, <<>>, NoError)
\* no function is called directly
NoCall == [pc |-> "none", fn |-> "none", fp |-> <<>>, data |-> Data(<<>>, BadDer),
           times |-> <<>>, certs |-> <<>>, err |-> NoError,
           f |-> <<>>, ext |-> <<>>, ok |-> FALSE,
           cfg |-> New, file |-> NoConfigFile]

\* the state right after Scan has returned: both channels made, the
\* WaitGroup raised once for the walker and once per worker, every goroutine
\* started
ScanStarted ==
    /\ fileCh = <<>> /\ fileClosed = 0
    /\ resultCh = <<>> /\ resultClosed = 0
    /\ scanWg = 1 + workers
    /\ walker = "walk" /\ rootIdx = 1 /\ stack = <<>>
    /\ pc = [w \in Workers |-> "recv"]
    /\ cur = [w \in Workers |-> <<>>]
    /\ res = [w \in Workers |-> NoResult]
    /\ closer = "wait"
    /\ enqueued = EmptyBag
    /\ owed = [w \in Workers |-> 0]
    /\ panicked = FALSE
    /\ warnings = {}

CoordinatorIdle ==
    /\ client = [c \in Clients |-> "idle"]
    /\ units = [c \in Clients |-> 0]
    /\ waitCall = "idle"
    /\ waitGo = "none"
    /\ shutdownCalls = 0
    /\ timer = 0
    /\ zeroAt = -1

\* main is not running: Scan is called as the tests call it
NoProc == [pc |-> "none", handler |-> "none", timeout |-> 0, blocked |-> FALSE,
           mgr |-> [t |-> 0, running |-> TRUE, wg |-> 0]]
\* neither main nor the dashboard server is running
NoApp == proc = NoProc /\ alertsFile = <<>> /\ handlers = <<>>

\* the state after main has made the Manager and Scan has returned, for a
\* scan of one of the root lists over one of the file systems
InitWith(rootLists, fileSystems) ==
    /\ paths \in rootLists
    /\ files \in fileSystems
    /\ prs = [includeSubject |-> FALSE, daysThreshold |-> 30]
    /\ clock = 0
    /\ call = NoCall
    /\ mgr = NewManager(MaxTimeout)
    /\ cancelled = FALSE
    /\ ScanStarted
    /\ caller = "recv" /\ inHand = NoResult /\ received = EmptyBag
    /\ CoordinatorIdle /\ NoApp

Init == InitWith(RootLists, FileSystems)

\* ------------------------------------------------------------------------
\* Path Walker (the first goroutine of Scan)
\* ------------------------------------------------------------------------
Frame(path, depth) == [path |-> path, depth |-> depth, phase |-> "enter", idx |-> 1]
Top == stack[Len(stack)]
Popped == SubSeq(stack, 1, Len(stack) - 1)
WithTop(f) == [stack EXCEPT ![Len(stack)] = f]
Warning(msg, path) == <<msg, path>>

\* checks that poll ctx.Done() and never read the shutdown flag
StopOnCancelOnly == cancelled

\* the checks made before each root, each directory and each entry: the
\* shutdown flag, then a non-blocking poll of ctx.Done()
StopRequested == IsShuttingDown(mgr) \/ cancelled

\* walkPaths whose goroutine does not close fileCh when it ends
WalkPathsNextNoClose ==
    /\ walker = "walk" /\ stack = <<>>
    /\ IF rootIdx > Len(paths) \/ StopRequested
       THEN /\ walker' = "returned"
            /\ scanWg' = scanWg - 1
            /\ UNCHANGED << rootIdx, stack >>
       ELSE /\ stack' = << Frame(paths[rootIdx], 0) >>
            /\ rootIdx' = rootIdx + 1
            /\ UNCHANGED << walker, scanWg >>
    /\ UNCHANGED << inputVars, appVars, mgr, cancelled, fileCh, fileClosed, resultCh, resultClosed,
                    warnings, workerVars, closer, callerVars, enqueued, panicked, coordVars >>

\* walkPaths: one iteration of the loop over the root paths; when the loop
\* ends, walkPaths returns and the goroutine's deferred close(fileCh) and
\* wg.Done() run
WalkPathsNext ==
    /\ walker = "walk" /\ stack = <<>>
    /\ IF rootIdx > Len(paths) \/ StopRequested
       THEN /\ walker' = "returned"
            /\ fileClosed' = fileClosed + 1
            /\ panicked' = (panicked \/ fileClosed > 0)
            /\ scanWg' = scanWg - 1
            /\ UNCHANGED << rootIdx, stack >>
       ELSE /\ stack' = << Frame(paths[rootIdx], 0) >>
            /\ rootIdx' = rootIdx + 1
            /\ UNCHANGED << walker, fileClosed, panicked, scanWg >>
    /\ UNCHANGED << inputVars, appVars, mgr, cancelled, fileCh, resultCh, resultClosed, warnings,
                    workerVars, closer, callerVars, enqueued, coordVars >>

\* a walkPath without the test of depth against MaxDepth
WalkPathEnterNoDepthLimit ==
    /\ walker = "walk" /\ stack # <<>> /\ Top.phase = "enter"
    /\ IF StopRequested
       THEN /\ stack' = Popped
            /\ UNCHANGED warnings
       ELSE IF validatePath(Top.path) # NoError
       THEN /\ warnings' = warnings \cup {Warning("Invalid path detected", Top.path)}
            /\ stack' = Popped
       ELSE /\ stack' = WithTop([Top EXCEPT !.phase = "list"])
            /\ UNCHANGED warnings
    /\ UNCHANGED << inputVars, appVars, mgr, cancelled, fileCh, fileClosed, resultCh, resultClosed,
                    scanWg, walker, rootIdx, workerVars, closer, callerVars, enqueued,
                    panicked, coordVars >>

\* walkPath up to os.ReadDir: the depth limit, the stop checks, validatePath
WalkPathEnter ==
    /\ walker = "walk" /\ stack # <<>> /\ Top.phase = "enter"
    /\ IF Top.depth > MaxDepth
       THEN /\ warnings' = warnings \cup {Warning("Maximum directory depth exceeded", Top.path)}
            /\ stack' = Popped
       ELSE IF StopRequested
       THEN /\ stack' = Popped
            /\ UNCHANGED warnings
       ELSE IF validatePath(Top.path) # NoError
       THEN /\ warnings' = warnings \cup {Warning("Invalid path detected", Top.path)}
            /\ stack' = Popped
       ELSE /\ stack' = WithTop([Top EXCEPT !.phase = "list"])
            /\ UNCHANGED warnings
    /\ UNCHANGED << inputVars, appVars, mgr, cancelled, fileCh, fileClosed, resultCh, resultClosed,
                    scanWg, walker, rootIdx, workerVars, closer, callerVars, enqueued,
                    panicked, coordVars >>

\* a walkPath that gives up the whole root when a directory cannot be listed
WalkPathListAbandonsRoot ==
    /\ walker = "walk" /\ stack # <<>> /\ Top.phase = "list"
    /\ IF ReadDir(Top.path).err # NoError
       THEN /\ warnings' = warnings \cup {Warning("Failed to read directory", Top.path)}
            /\ stack' = <<>>
       ELSE /\ stack' = WithTop([Top EXCEPT !.phase = "loop"])
            /\ UNCHANGED warnings
    /\ UNCHANGED << inputVars, appVars, mgr, cancelled, fileCh, fileClosed, resultCh, resultClosed,
                    scanWg, walker, rootIdx, workerVars, closer, callerVars, enqueued,
                    panicked, coordVars >>

\* walkPath: os.ReadDir(rootPath), the directory is listed
WalkPathList ==
    /\ walker = "walk" /\ stack # <<>> /\ Top.phase = "list"
    /\ IF ReadDir(Top.path).err # NoError
       THEN /\ warnings' = warnings \cup {Warning("Failed to read directory", Top.path)}
            /\ stack' = Popped
       ELSE /\ stack' = WithTop([Top EXCEPT !.phase = "loop"])
            /\ UNCHANGED warnings
    /\ UNCHANGED << inputVars, appVars, mgr, cancelled, fileCh, fileClosed, resultCh, resultClosed,
                    scanWg, walker, rootIdx, workerVars, closer, callerVars, enqueued,
                    panicked, coordVars >>

\* walkPath: one iteration of the loop over the entries, up to the send
WalkPathEntry ==
    /\ walker = "walk" /\ stack # <<>> /\ Top.phase = "loop"
    /\ LET entries == ReadDir(Top.path).entries IN
       IF Top.idx > Len(entries) \/ StopRequested
       THEN stack' = Popped
       ELSE LET entry    == entries[Top.idx]
                fullPath == Join(Top.path, entry.name)
            IN  IF entry.isDir
                THEN stack' = Append(WithTop([Top EXCEPT !.idx = @ + 1]),
                                     Frame(fullPath, Top.depth + 1))
                ELSE IF ShouldProcessFile(entry.name, ScanExt)
                THEN stack' = WithTop([Top EXCEPT !.phase = "send"])
                ELSE stack' = WithTop([Top EXCEPT !.idx = @ + 1])
    /\ UNCHANGED << inputVars, appVars, mgr, cancelled, fileCh, fileClosed, resultCh, resultClosed,
                    scanWg, walker, rootIdx, warnings, workerVars, closer, callerVars,
                    enqueued, panicked, coordVars >>

\* the path the walker is sending
SendingPath == Join(Top.path, ReadDir(Top.path).entries[Top.idx].name)

\* a select of walkPath without the ctx.Done() case
WalkerNeverSeesCancel == FALSE

\* walkPath: the case <-ctx.Done() of the select around the send is ready
WalkerSeesCancel == cancelled

\* a send after which the loop stays at the same entry
WalkPathSendKeepsEntry ==
    /\ walker = "walk" /\ stack # <<>> /\ Top.phase = "send"
    /\ Len(fileCh) < BuffSize
    /\ fileCh' = Append(fileCh, SendingPath)
    /\ enqueued' = enqueued (+) SetToBag({SendingPath})
    /\ stack' = WithTop([Top EXCEPT !.phase = "loop"])
    /\ UNCHANGED << inputVars, appVars, mgr, cancelled, fileClosed, resultCh, resultClosed,
                    scanWg, walker, rootIdx, warnings, workerVars, closer, callerVars,
                    panicked, coordVars >>

\* walkPath: select case fileCh <- fullPath
WalkPathSend ==
    /\ walker = "walk" /\ stack # <<>> /\ Top.phase = "send"
    /\ Len(fileCh) < BuffSize
    /\ fileCh' = Append(fileCh, SendingPath)
    /\ enqueued' = enqueued (+) SetToBag({SendingPath})
    /\ stack' = WithTop([Top EXCEPT !.phase = "loop", !.idx = @ + 1])
    /\ UNCHANGED << inputVars, appVars, mgr, cancelled, fileClosed, resultCh, resultClosed,
                    scanWg, walker, rootIdx, warnings, workerVars, closer, callerVars,
                    panicked, coordVars >>

\* walkPath: select case <-ctx.Done() while sending
WalkPathSendCancelled ==
    /\ walker = "walk" /\ stack # <<>> /\ Top.phase = "send"
    /\ WalkerSeesCancel
    /\ stack' = Popped
    /\ UNCHANGED << inputVars, appVars, mgr, cancelled, fileCh, fileClosed, resultCh, resultClosed,
                    scanWg, walker, rootIdx, warnings, workerVars, closer, callerVars,
                    enqueued, panicked, coordVars >>

Walker ==
    \/ WalkPathsNext \/ WalkPathEnter \/ WalkPathList \/ WalkPathEntry
    \/ WalkPathSend \/ WalkPathSendCancelled

\* ------------------------------------------------------------------------
\* Worker Pool (processFiles, run by each of the worker goroutines)
\* ------------------------------------------------------------------------
\* the worker's goroutine ends: processFiles returns and the deferred
\* wg.Done() runs
WorkerReturns(w) ==
    /\ pc' = [pc EXCEPT ![w] = "returned"]
    /\ scanWg' = scanWg - 1

\* a worker that ends after it has sent an error outcome
WorkerLoopsUnlessError(w) ==
    pc' = [pc EXCEPT ![w] = IF res[w].Error # NoError THEN "returned" ELSE "recv"]

\* the worker goes on with the next iteration of its loop
WorkerLoops(w) == pc' = [pc EXCEPT ![w] = "recv"]

\* processFiles: select case <-ctx.Done()
WorkerCtxDone(w) ==
    /\ pc[w] = "recv"
    /\ cancelled
    /\ WorkerReturns(w)
    /\ UNCHANGED << inputVars, appVars, mgr, cancelled, fileCh, fileClosed, resultCh, resultClosed,
                    walkVars, cur, res, owed, closer, callerVars, enqueued,
                    panicked, coordVars >>

\* processFiles: select case fp, ok := <-fileCh with ok true
WorkerRecv(w) ==
    /\ pc[w] = "recv"
    /\ fileCh # <<>>
    /\ cur' = [cur EXCEPT ![w] = Head(fileCh)]
    /\ fileCh' = Tail(fileCh)
    /\ owed' = [owed EXCEPT ![w] = @ + 1]
    /\ pc' = [pc EXCEPT ![w] = "check"]
    /\ UNCHANGED << inputVars, appVars, mgr, cancelled, fileClosed, resultCh, resultClosed, scanWg,
                    walkVars, res, closer, callerVars, enqueued, panicked,
                    coordVars >>

\* processFiles: select case fp, ok := <-fileCh with ok false
WorkerRecvClosed(w) ==
    /\ pc[w] = "recv"
    /\ fileCh = <<>> /\ fileClosed > 0
    /\ WorkerReturns(w)
    /\ UNCHANGED << inputVars, appVars, mgr, cancelled, fileCh, fileClosed, resultCh, resultClosed,
                    walkVars, cur, res, owed, closer, callerVars, enqueued,
                    panicked, coordVars >>

\* processFiles: if s.shutdownMgr.IsShuttingDown() { return }
WorkerCheck(w) ==
    /\ pc[w] = "check"
    /\ IF IsShuttingDown(mgr)
       THEN WorkerReturns(w)
       ELSE pc' = [pc EXCEPT ![w] = "add"] /\ UNCHANGED scanWg
    /\ UNCHANGED << inputVars, appVars, mgr, cancelled, fileCh, fileClosed, resultCh, resultClosed,
                    walkVars, cur, res, owed, closer, callerVars, enqueued,
                    panicked, coordVars >>

\* processFileWithContext has returned result r to processFiles
WorkerHolds(w, r) ==
    /\ res' = [res EXCEPT ![w] = r]
    /\ owed' = [owed EXCEPT ![w] = @ - 1]
    /\ cur' = [cur EXCEPT ![w] = <<>>]
    /\ pc' = [pc EXCEPT ![w] = "done"]

\* processFiles: shutdownMgr.Add(1), then processFileWithContext up to the
\* start of the read (context.WithTimeout, os.Stat, the size check)
WorkerAdd(w) ==
    /\ pc[w] = "add"
    /\ mgr' = Add(mgr, 1)
    /\ LET err == StatAndSizeError(files[cur[w]]) IN
       IF err # NoError
       THEN WorkerHolds(w, processFileResult(cur[w], <<>>, err))
       ELSE /\ pc' = [pc EXCEPT ![w] = "reading"]
            /\ UNCHANGED << res, owed, cur >>
    /\ UNCHANGED << inputVars, appVars, cancelled, fileCh, fileClosed, resultCh, resultClosed, scanWg,
                    walkVars, closer, callerVars, enqueued, panicked, coordVars >>

\* what processFileWithContext returns once readFileWithContext has
\* returned readErr (and the file's data when readErr is nil)
ResultAfterRead(w, readErr) ==
    LET parsed == ParseAfterRead(prs, cur[w], files[cur[w]], readErr, clock)
    IN  processFileResult(cur[w], parsed.certs, parsed.err)

\* readFileWithContext: select case <-done, os.ReadFile has returned
WorkerReadCompletes(w) ==
    /\ pc[w] = "reading"
    /\ files[cur[w]].read \in {"ok", "err", "slow"}
    /\ WorkerHolds(w, ResultAfterRead(w, IF files[cur[w]].read = "err"
                                         THEN <<"input/output error">> ELSE NoError))
    /\ UNCHANGED << inputVars, appVars, mgr, cancelled, fileCh, fileClosed, resultCh, resultClosed,
                    scanWg, walkVars, closer, callerVars, enqueued, panicked,
                    coordVars >>

\* a read under the parent context alone: no deadline ever fires
WorkerReadNoDeadline(w) ==
    /\ pc[w] = "reading"
    /\ FALSE
    /\ UNCHANGED vars

\* readFileWithContext: select case <-ctx.Done(), the deadline of
\* context.WithTimeout(parentCtx, CertTimeout) has passed
WorkerReadDeadline(w) ==
    /\ pc[w] = "reading"
    /\ files[cur[w]].read \in {"slow", "hang"}
    /\ WorkerHolds(w, ResultAfterRead(w, ErrDeadlineExceeded))
    /\ UNCHANGED << inputVars, appVars, mgr, cancelled, fileCh, fileClosed, resultCh, resultClosed,
                    scanWg, walkVars, closer, callerVars, enqueued, panicked,
                    coordVars >>

\* a cancelled read after which processFiles skips shutdownMgr.Done()
WorkerReadCancelledNoDone(w) ==
    /\ pc[w] = "reading"
    /\ cancelled
    /\ res' = [res EXCEPT ![w] = ResultAfterRead(w, ErrCanceled)]
    /\ owed' = [owed EXCEPT ![w] = @ - 1]
    /\ cur' = [cur EXCEPT ![w] = <<>>]
    /\ pc' = [pc EXCEPT ![w] = "send"]
    /\ UNCHANGED << inputVars, appVars, mgr, cancelled, fileCh, fileClosed, resultCh, resultClosed,
                    scanWg, walkVars, closer, callerVars, enqueued, panicked,
                    coordVars >>

\* readFileWithContext: select case <-ctx.Done(), the parent was cancelled
WorkerReadCancelled(w) ==
    /\ pc[w] = "reading"
    /\ cancelled
    /\ WorkerHolds(w, ResultAfterRead(w, ErrCanceled))
    /\ UNCHANGED << inputVars, appVars, mgr, cancelled, fileCh, fileClosed, resultCh, resultClosed,
                    scanWg, walkVars, closer, callerVars, enqueued, panicked,
                    coordVars >>

\* processFiles: shutdownMgr.Done()
WorkerDone(w) ==
    /\ pc[w] = "done"
    /\ mgr' = Done(mgr)
    /\ pc' = [pc EXCEPT ![w] = "send"]
    /\ UNCHANGED << inputVars, appVars, cancelled, fileCh, fileClosed, resultCh, resultClosed, scanWg,
                    walkVars, cur, res, owed, closer, callerVars, enqueued,
                    panicked, coordVars >>

\* a send that gives up when the result channel is full
WorkerSendOrDrop(w) ==
    /\ pc[w] = "send"
    /\ IF resultClosed > 0
       THEN /\ panicked' = TRUE
            /\ pc' = [pc EXCEPT ![w] = "returned"]
            /\ UNCHANGED resultCh
       ELSE /\ resultCh' = IF Len(resultCh) < BuffSize THEN Append(resultCh, res[w]) ELSE resultCh
            /\ WorkerLoops(w)
            /\ UNCHANGED panicked
    /\ res' = [res EXCEPT ![w] = NoResult]
    /\ UNCHANGED << inputVars, appVars, mgr, cancelled, fileCh, fileClosed, resultClosed, scanWg,
                    walkVars, cur, owed, closer, callerVars, enqueued, coordVars >>

\* processFiles: select case resultCh <- result (a send on a closed channel
\* panics)
WorkerSend(w) ==
    /\ pc[w] = "send"
    /\ IF resultClosed > 0
       THEN /\ panicked' = TRUE
            /\ pc' = [pc EXCEPT ![w] = "returned"]
            /\ UNCHANGED resultCh
       ELSE /\ Len(resultCh) < BuffSize
            /\ resultCh' = Append(resultCh, res[w])
            /\ WorkerLoops(w)
            /\ UNCHANGED panicked
    /\ res' = [res EXCEPT ![w] = NoResult]
    /\ UNCHANGED << inputVars, appVars, mgr, cancelled, fileCh, fileClosed, resultClosed, scanWg,
                    walkVars, cur, owed, closer, callerVars, enqueued, coordVars >>

\* processFiles: select case <-ctx.Done() while sending the result
WorkerSendCancelled(w) ==
    /\ pc[w] = "send"
    /\ cancelled
    /\ WorkerReturns(w)
    /\ res' = [res EXCEPT ![w] = NoResult]
    /\ UNCHANGED << inputVars, appVars, mgr, cancelled, fileCh, fileClosed, resultCh, resultClosed,
                    walkVars, cur, owed, closer, callerVars, enqueued, panicked,
                    coordVars >>

Worker(w) ==
    \/ WorkerCtxDone(w) \/ WorkerRecv(w) \/ WorkerRecvClosed(w) \/ WorkerCheck(w)
    \/ WorkerAdd(w) \/ WorkerReadCompletes(w) \/ WorkerReadDeadline(w)
    \/ WorkerReadCancelled(w) \/ WorkerDone(w) \/ WorkerSend(w) \/ WorkerSendCancelled(w)

\* Scan's last goroutine: wg.Wait(), then close(resultCh)
CloseResults ==
    /\ closer = "wait"
    /\ WaitGroupReleased(scanWg)
    /\ closer' = "done"
    /\ resultClosed' = resultClosed + 1
    /\ panicked' = (panicked \/ resultClosed > 0)
    /\ UNCHANGED << inputVars, appVars, mgr, cancelled, fileCh, fileClosed, resultCh, scanWg,
                    walkVars, workerVars, callerVars, enqueued, coordVars >>

\* ------------------------------------------------------------------------
\* The caller of Scan (main.go, execute) and the signal handler (main)
\* ------------------------------------------------------------------------
\* for result := range resultCh: the next result is received
CallerReceives ==
    /\ caller = "recv"
    /\ resultCh # <<>>
    /\ inHand' = Head(resultCh)
    /\ resultCh' = Tail(resultCh)
    /\ caller' = "body"
    /\ UNCHANGED << inputVars, appVars, mgr, cancelled, fileCh, fileClosed, resultClosed, scanWg,
                    walkVars, workerVars, closer, received, enqueued, panicked, coordVars >>

\* for result := range resultCh: the channel is closed and empty
CallerSeesClose ==
    /\ caller = "recv"
    /\ resultCh = <<>> /\ resultClosed > 0
    /\ caller' = "done"
    /\ UNCHANGED << inputVars, appVars, mgr, cancelled, fileCh, fileClosed, resultCh, resultClosed,
                    scanWg, walkVars, workerVars, closer, inHand, received, enqueued,
                    panicked, coordVars >>

\* the loop body.  execute breaks out of the loop when the Manager is
\* shutting down; a caller that does not consult the Manager (the loops of
\* the tests) handles every result it receives
CallerHandles ==
    /\ caller = "body"
    /\ \/ /\ IsShuttingDown(mgr)
          /\ caller' = "stopped"
          /\ UNCHANGED received
       \/ /\ caller' = "recv"
          /\ received' = received (+) SetToBag({inHand})
    /\ inHand' = NoResult
    /\ UNCHANGED << inputVars, appVars, mgr, cancelled, fileCh, fileClosed, resultCh, resultClosed,
                    scanWg, walkVars, workerVars, closer, enqueued, panicked, coordVars >>

\* shutdownMgr.Shutdown() is called on the Scanner's Manager
CallShutdown ==
    /\ mgr' = Shutdown(mgr)
    /\ UNCHANGED << inputVars, appVars, cancelled, fileCh, fileClosed, resultCh, resultClosed,
                    scanWg, walkVars, workerVars, closer, callerVars, enqueued, panicked,
                    coordVars >>

\* cancel() of the pipeline's context is called
Cancel ==
    /\ cancelled' = TRUE
    /\ UNCHANGED << inputVars, appVars, mgr, fileCh, fileClosed, resultCh, resultClosed, scanWg,
                    walkVars, workerVars, closer, callerVars, enqueued, panicked, coordVars >>

Next ==
    \/ Walker
    \/ \E w \in Workers : Worker(w)
    \/ CloseResults
    \/ CallerReceives \/ CallerSeesClose \/ CallerHandles
    \/ CallShutdown
    \/ Cancel

Spec == Init /\ [][Next]_vars

\* the walker goroutine can take a step: it is blocked only in the select
\* of walkPath, while fileCh is full and ctx.Done() is open
WalkerCanStep ==
    /\ walker = "walk"
    /\ (stack = <<>> \/ Top.phase # "send" \/ Len(fileCh) < BuffSize \/ WalkerSeesCancel)

\* weak fairness of the walker, WF_vars(Walker), with ENABLED <<Walker>>_vars
\* written out as WalkerCanStep
WalkerFair == ([]<>(~WalkerCanStep)) \/ ([]<><<Walker>>_vars)

\* Every goroutine of the pipeline that can take a step eventually takes
\* one (the Go scheduler runs every runnable goroutine, and the runtime
\* fires the timer of context.WithTimeout); nothing obliges cancel() or
\* Shutdown() to be called.
Fairness ==
    /\ WalkerFair
    /\ \A w \in Workers : WF_vars(Worker(w))
    /\ WF_vars(CloseResults)
    /\ WF_vars(CallerReceives \/ CallerSeesClose \/ CallerHandles)

\* the scans checked under fairness
FairRootLists == { << EmptyRoot >>, << Root >> }
FairFileSystems == { FilesOf(HangFile, SlowFile, GoodFile) }
FairInit == InitWith(FairRootLists, FairFileSystems)

FairSpec == FairInit /\ [][Next]_vars /\ Fairness

\* a scan that walks the same tree several times over, so that more paths
\* are found than the workers and both channels can hold
StopRootLists == { << Root, Root >> }
StopInit == InitWith(StopRootLists, FairFileSystems)
StopSpec == StopInit /\ [][Next]_vars

\* a scan whose first root cannot be listed and whose second root fails
\* validation ("/r/." is not its own cleaned form), before the root /r
MissingRoot == <<"/", "x">>
UncleanRoot == Root \o <<Separator, ".">>
SkipRootLists == { << MissingRoot, UncleanRoot, Root >> }
SkipInit == InitWith(SkipRootLists, FairFileSystems)
SkipSpec == SkipInit /\ [][Next]_vars

AllReturned == walker = "returned" /\ \A w \in Workers : pc[w] = "returned"

\* ------------------------------------------------------------------------
\* The coordinator on its own: goroutines that register and finish units of
\* work, Shutdown() calls and one Wait(), as in manager_test.go
\* ------------------------------------------------------------------------
\* no pipeline is running
NoPipeline ==
    /\ cancelled = FALSE
    /\ fileCh = <<>> /\ fileClosed = 0
    /\ resultCh = <<>> /\ resultClosed = 0
    /\ scanWg = 0
    /\ walker = "none" /\ rootIdx = 1 /\ stack = <<>>
    /\ pc = [w \in Workers |-> "none"]
    /\ cur = [w \in Workers |-> <<>>]
    /\ res = [w \in Workers |-> NoResult]
    /\ closer = "none"
    /\ caller = "none" /\ inHand = NoResult /\ received = EmptyBag
    /\ enqueued = EmptyBag
    /\ owed = [w \in Workers |-> 0]
    /\ panicked = FALSE
    /\ warnings = {}

\* no scan is running
NoScan ==
    /\ paths = <<>>
    /\ files = FilesOf(GoodFile, GoodFile, GoodFile)
    /\ prs = [includeSubject |-> FALSE, daysThreshold |-> 30]
    /\ clock = 0
    /\ call = NoCall
    /\ NoPipeline

scanVars == << inputVars, appVars, cancelled, fileCh, fileClosed, resultCh, resultClosed, scanWg,
               walkVars, workerVars, closer, callerVars, enqueued, panicked >>

\* a Manager made with any timeout, zero included; nothing has used it yet
MgrInit == (\E t \in 0..MaxTimeout : mgr = NewManager(t)) /\ NoScan /\ CoordinatorIdle /\ NoApp

\* Manager.Wait has been called and has not returned
Waiting == waitCall = "select"
\* Manager.Wait has returned
WaitReturned == waitCall \in {"drained", "timedout"}

\* a goroutine calls mgr.Add(1) before a unit of work
ClientAdd(c) ==
    /\ client[c] = "idle"
    /\ units[c] < MaxUnits
    /\ mgr' = Add(mgr, 1)
    /\ client' = [client EXCEPT ![c] = "working"]
    /\ UNCHANGED << scanVars, units, waitCall, waitGo, shutdownCalls, timer, zeroAt >>

\* the goroutine calls mgr.Done() after it, at any later instant
ClientDone(c) ==
    /\ client[c] = "working"
    /\ mgr' = Done(mgr)
    /\ client' = [client EXCEPT ![c] = "idle"]
    /\ units' = [units EXCEPT ![c] = @ + 1]
    /\ zeroAt' = IF Waiting /\ mgr'.wg = 0 THEN clock ELSE zeroAt
    /\ UNCHANGED << scanVars, waitCall, waitGo, shutdownCalls, timer >>

\* some goroutine calls mgr.Shutdown()
ShutdownCalled ==
    /\ shutdownCalls < MaxShutdownCalls
    /\ mgr' = Shutdown(mgr)
    /\ shutdownCalls' = shutdownCalls + 1
    /\ UNCHANGED << scanVars, client, units, waitCall, waitGo, timer, zeroAt >>

\* Manager.Wait is called: the done channel is made, the goroutine that
\* runs wg.Wait() is started, the caller reaches the select and
\* time.After(m.t) starts its timer
WaitCalled ==
    /\ waitCall = "idle"
    /\ clock + mgr.t <= MaxClock
    /\ waitCall' = "select"
    /\ waitGo' = "waiting"
    /\ timer' = clock + mgr.t
    /\ zeroAt' = IF mgr.wg = 0 THEN clock ELSE -1
    /\ UNCHANGED << scanVars, mgr, client, units, shutdownCalls >>

\* a goroutine of Wait that closes done without waiting for the counter
WaitGroupDrainedAtOnce ==
    /\ waitGo = "waiting"
    /\ waitGo' = "closed"
    /\ UNCHANGED << scanVars, mgr, client, units, waitCall, shutdownCalls, timer, zeroAt >>

\* Manager.Wait's goroutine: wg.Wait() returns, close(done)
WaitGroupDrained ==
    /\ waitGo = "waiting"
    /\ WaitGroupReleased(mgr.wg)
    /\ waitGo' = "closed"
    /\ UNCHANGED << scanVars, mgr, client, units, waitCall, shutdownCalls, timer, zeroAt >>

\* a select without the case <-done
WaitIgnoresDone == FALSE /\ UNCHANGED vars

\* Manager.Wait: select case <-done
WaitReturnsDone ==
    /\ Waiting
    /\ waitGo = "closed"
    /\ waitCall' = "drained"
    /\ UNCHANGED << scanVars, mgr, client, units, waitGo, shutdownCalls, timer, zeroAt >>

\* a select without the case <-time.After(m.t)
WaitWithoutTimer == FALSE /\ UNCHANGED vars

\* Manager.Wait: select case <-time.After(m.t), ready once the timer has fired
WaitReturnsTimeout ==
    /\ Waiting
    /\ clock >= timer
    /\ waitCall' = "timedout"
    /\ UNCHANGED << scanVars, mgr, client, units, waitGo, shutdownCalls, timer, zeroAt >>

\* the steps of Manager.Wait and of its goroutine
WaitSteps == WaitGroupDrained \/ WaitReturnsDone \/ WaitReturnsTimeout

\* time passes.  Wait and its goroutine do not sleep: a step of theirs that
\* can be taken is taken at the instant it becomes possible (the goroutines
\* of a synctest bubble run until all are blocked, then the clock moves)
Tick ==
    /\ clock < MaxClock
    /\ ~ENABLED WaitSteps
    /\ clock' = clock + 1
    /\ UNCHANGED << appVars, paths, files, prs, call, mgr, cancelled, fileCh, fileClosed, resultCh,
                    resultClosed, scanWg, walkVars, workerVars, closer, callerVars,
                    enqueued, panicked, coordVars >>

MgrNext ==
    \/ \E c \in Clients : ClientAdd(c) \/ ClientDone(c)
    \/ ShutdownCalled
    \/ WaitCalled \/ WaitGroupDrained \/ WaitReturnsDone \/ WaitReturnsTimeout
    \/ Tick

MgrSpec == MgrInit /\ [][MgrNext]_vars

\* the clock moves, and the goroutines of Wait are scheduled
MgrFairness ==
    /\ WF_vars(Tick)
    /\ WF_vars(WaitGroupDrained)
    /\ WF_vars(WaitReturnsDone \/ WaitReturnsTimeout)

MgrFairSpec == MgrInit /\ [][MgrNext]_vars /\ MgrFairness

\* ------------------------------------------------------------------------
\* The process (main.go): main, its signal handler and execute, which runs
\* the scan, consumes the results and calls Wait
\* ------------------------------------------------------------------------
\* the timeout of the Manager main makes (30 * time.Second)
DefaultTimeout == MaxTimeout

\* execute: the Manager it goes on with, given the one main passed to it
executeManager(mainMgr, timeout) ==
    IF timeout > 0 THEN NewManager(timeout) ELSE mainMgr
\* execute has made a Manager of its own: the Scanner's is not main's
ManagerReplaced == proc.timeout > 0

\* main has made its Manager and started the signal handler, the flags are
\* parsed, execute has chosen its Manager and Scan has returned
MainInit ==
    /\ paths = << Root >>
    /\ files \in FairFileSystems
    /\ prs = [includeSubject |-> FALSE, daysThreshold |-> 30]
    /\ clock = 0
    /\ call = NoCall
    /\ proc \in {[pc |-> "execute", handler |-> "wait", timeout |-> t, blocked |-> FALSE,
                   mgr |-> NewManager(DefaultTimeout)] : t \in 0..MaxTimeout}
    /\ mgr = executeManager(proc.mgr, proc.timeout)
    /\ cancelled = FALSE
    /\ ScanStarted
    /\ caller = "recv" /\ inHand = NoResult /\ received = EmptyBag
    /\ CoordinatorIdle
    /\ alertsFile = <<>> /\ handlers = <<>>

\* a worker is blocked in its send: it holds a result and resultCh is full
SendBlocked == \E w \in Workers : pc[w] = "send" /\ Len(resultCh) >= BuffSize

\* SIGINT or SIGTERM arrives while execute runs: sig := <-sigCh
Signal ==
    /\ proc.pc = "execute" /\ proc.handler = "wait"
    /\ proc' = [proc EXCEPT !.handler = "shutdown", !.blocked = SendBlocked]
    /\ UNCHANGED << inputVars, alertsFile, handlers, mgr, cancelled, fileCh, fileClosed,
                    resultCh, resultClosed, scanWg, walkVars, workerVars, closer,
                    callerVars, enqueued, panicked, coordVars >>

\* the signal handler: shutdownMgr.Shutdown() on the Manager main made, which
\* is the Scanner's only when execute has not replaced it
HandlerShutdown ==
    /\ proc.handler = "shutdown"
    /\ proc' = [proc EXCEPT !.handler = "cancel", !.mgr = Shutdown(@)]
    /\ mgr' = IF ManagerReplaced THEN mgr ELSE Shutdown(mgr)
    /\ UNCHANGED << inputVars, alertsFile, handlers, cancelled, fileCh, fileClosed,
                    resultCh, resultClosed, scanWg, walkVars, workerVars, closer,
                    callerVars, enqueued, panicked, coordVars >>

\* the signal handler: cancel()
HandlerCancel ==
    /\ proc.handler = "cancel"
    /\ proc' = [proc EXCEPT !.handler = "done"]
    /\ cancelled' = TRUE
    /\ UNCHANGED << inputVars, alertsFile, handlers, mgr, fileCh, fileClosed,
                    resultCh, resultClosed, scanWg, walkVars, workerVars, closer,
                    callerVars, enqueued, panicked, coordVars >>

\* execute: the loop over resultCh has ended, shutdownMgr.Wait() is called
ExecuteCallsWait ==
    /\ proc.pc = "execute"
    /\ caller \in {"done", "stopped"}
    /\ WaitCalled

\* time passes while execute is in Wait (the time before the call is not
\* measured: the clock is read by the timer of Wait)
MainTick == Waiting /\ Tick

\* execute returns nil and main logs "Padecer shutdown completed"
ExecuteReturns ==
    /\ proc.pc = "execute"
    /\ WaitReturned
    /\ proc' = [proc EXCEPT !.pc = "completed"]
    /\ UNCHANGED << inputVars, alertsFile, handlers, mgr, cancelled, fileCh, fileClosed,
                    resultCh, resultClosed, scanWg, walkVars, workerVars, closer,
                    callerVars, enqueued, panicked, coordVars >>

MainNext ==
    \/ Walker
    \/ \E w \in Workers : Worker(w)
    \/ CloseResults
    \/ CallerReceives \/ CallerSeesClose \/ CallerHandles
    \/ Signal \/ HandlerShutdown \/ HandlerCancel
    \/ ExecuteCallsWait \/ WaitGroupDrained \/ WaitReturnsDone \/ WaitReturnsTimeout
    \/ MainTick
    \/ ExecuteReturns

MainSpec == MainInit /\ [][MainNext]_vars

\* every goroutine of the process that can take a step eventually takes one;
\* nothing obliges a signal to arrive
MainFairness ==
    /\ Fairness
    /\ WF_vars(HandlerShutdown \/ HandlerCancel)
    /\ WF_vars(ExecuteCallsWait \/ ExecuteReturns)
    /\ WF_vars(WaitGroupDrained)
    /\ WF_vars(WaitReturnsDone \/ WaitReturnsTimeout)
    /\ WF_vars(MainTick)

MainFairSpec == MainInit /\ [][MainNext]_vars /\ MainFairness

\* ------------------------------------------------------------------------
\* The dashboard server (main.go, runServer): POST /alerts requests, each
\* handled by handleAlert in a goroutine of its own, over one alerts file
\* ------------------------------------------------------------------------
\* an Alert; the zero time is "zero"
Alert(host, path, expirationDate, timestamp) ==
    [Host |-> host, Path |-> path, ExpirationDate |-> expirationDate, Timestamp |-> timestamp]
NoAlert == Alert("", "", "zero", "zero")
\* the alerts the agents send: with or without host, path, expiration date
\* and timestamp
Alerts ==
    {Alert(host, path, e, t) : host \in {"", "h1", "h2"}, path \in {"", "p1"},
                               e \in {"zero", "e1", "e2"}, t \in {"zero", "sent"}}
\* a request body: JSON that decodes to an Alert, or not JSON
Body(valid, alert) == [valid |-> valid, alert |-> alert]
Bodies == {Body(FALSE, NoAlert)} \cup {Body(TRUE, a) : a \in Alerts}

\* the alerts file: absent, holding a JSON list, or opened for writing and
\* still empty (os.WriteFile truncates the file, then writes)
AlertsFileOf(state, alerts) == [state |-> state, alerts |-> alerts]
AlertsFiles ==
    { AlertsFileOf("absent", <<>>),
      AlertsFileOf("ok", <<>>),
      AlertsFileOf("ok", << Alert("h1", "p1", "e1", "sent") >>) }

\* a goroutine of the server: where it is in handleAlert, the decoded alert,
\* the list loadAlerts returned, the list given to saveAlerts, the response
Handler(hpc, alert, loaded, alerts, status) ==
    [pc |-> hpc, alert |-> alert, loaded |-> loaded, alerts |-> alerts, status |-> status]
IdleHandler == Handler("idle", NoAlert, <<>>, <<>>, 0)
Requests == 1..MaxRequests

\* an update that appends the alert whether or not its pair is stored
MergeAlertAlwaysAppends(alerts, alert) == Append(alerts, alert)

\* handleAlert: the alert replaces the first stored alert of its host and
\* path, or is appended when there is none
MergeAlert(alerts, alert) ==
    LET same == {i \in 1..Len(alerts) :
                    alerts[i].Host = alert.Host /\ alerts[i].Path = alert.Path}
    IN  IF same # {}
        THEN [alerts EXCEPT ![CHOOSE i \in same : \A j \in same : i <= j] = alert]
        ELSE Append(alerts, alert)

\* the server is running and no request has arrived
ServerInit ==
    /\ NoScan
    /\ mgr = NewManager(DefaultTimeout)
    /\ CoordinatorIdle
    /\ proc = NoProc
    /\ alertsFile \in AlertsFiles
    /\ handlers = [h \in Requests |-> IdleHandler]

serverFrame == << inputVars, proc, mgr, cancelled, fileCh, fileClosed, resultCh, resultClosed,
                 scanWg, walkVars, workerVars, closer, callerVars, enqueued, panicked,
                 coordVars >>

\* handleAlert up to loadAlerts: the body is decoded, the required fields are
\* checked (400 when either fails), a zero timestamp becomes time.Now()
RequestArrives(h, body) ==
    /\ handlers[h].pc = "idle"
    /\ handlers' = [handlers EXCEPT ![h] =
          IF ~body.valid
          THEN [@ EXCEPT !.pc = "responded", !.status = 400]
          ELSE IF body.alert.Host = "" \/ body.alert.Path = ""
                  \/ body.alert.ExpirationDate = "zero"
          THEN [@ EXCEPT !.pc = "responded", !.status = 400, !.alert = body.alert]
          ELSE [@ EXCEPT !.pc = "load",
                         !.alert = IF body.alert.Timestamp = "zero"
                                   THEN [body.alert EXCEPT !.Timestamp = "now"]
                                   ELSE body.alert]]
    /\ UNCHANGED << serverFrame, alertsFile >>

\* handleAlert: loadAlerts (an empty list when the file does not exist, 500
\* when its content is not JSON), then the alert is put into the list
LoadAlerts(h) ==
    /\ handlers[h].pc = "load"
    /\ handlers' = [handlers EXCEPT ![h] =
          IF alertsFile.state = "truncated"
          THEN [@ EXCEPT !.pc = "responded", !.status = 500]
          ELSE [@ EXCEPT !.pc = "save",
                         !.loaded = alertsFile.alerts,
                         !.alerts = MergeAlert(alertsFile.alerts, handlers[h].alert)]]
    /\ UNCHANGED << serverFrame, alertsFile >>

\* saveAlerts: os.WriteFile opens the file and truncates it
SaveTruncates(h) ==
    /\ handlers[h].pc = "save"
    /\ alertsFile' = AlertsFileOf("truncated", <<>>)
    /\ handlers' = [handlers EXCEPT ![h].pc = "write"]
    /\ UNCHANGED serverFrame

\* saveAlerts: os.WriteFile writes the list; handleAlert answers 200
SaveWrites(h) ==
    /\ handlers[h].pc = "write"
    /\ alertsFile' = AlertsFileOf("ok", handlers[h].alerts)
    /\ handlers' = [handlers EXCEPT ![h].pc = "responded", ![h].status = 200]
    /\ UNCHANGED serverFrame

\* no request is being handled
NoneInFlight == \A h \in Requests : handlers[h].pc \in {"idle", "responded"}

\* requests handled concurrently, as net/http does
ServerNext ==
    \E h \in Requests :
        \/ \E body \in Bodies : RequestArrives(h, body)
        \/ LoadAlerts(h)
        \/ SaveTruncates(h)
        \/ SaveWrites(h)

ServerSpec == ServerInit /\ [][ServerNext]_vars

\* requests handled one at a time: a request arrives when none is in flight
SerialNext ==
    \E h \in Requests :
        \/ NoneInFlight /\ \E body \in Bodies : RequestArrives(h, body)
        \/ LoadAlerts(h)
        \/ SaveTruncates(h)
        \/ SaveWrites(h)

SerialSpec == ServerInit /\ [][SerialNext]_vars

\* ------------------------------------------------------------------------
\* The parser on its own: Parser.ParseData called on a buffer, as in
\* scanner_bench_test.go
\* ------------------------------------------------------------------------
\* expiration times, in hours from the instant ParseData is called: 30 and 5
\* hours before, that instant, 15 days, an hour less than 31 days, 31 days,
\* 90 days and 180 days after
NotAfters == {-30, -5, 0, 15 * 24, 31 * 24 - 1, 31 * 24, 90 * 24, 180 * 24}
\* expiry thresholds of NewParser, in days
Thresholds == {0, 30}
\* the parsers NewParser(includeSubject, daysThreshold) makes
Parsers == [includeSubject : BOOLEAN, daysThreshold : Thresholds]

\* what a PEM block of a buffer can be: a certificate that parses, a
\* CERTIFICATE block whose payload does not parse, a block of another type
BlockKinds ==
    {[type |-> "CERTIFICATE", valid |-> TRUE, notAfter |-> h] : h \in NotAfters}
    \cup {[type |-> "CERTIFICATE", valid |-> FALSE, notAfter |-> 0],
          [type |-> "PRIVATE KEY", valid |-> FALSE, notAfter |-> 0]}

\* the buffer made of the blocks ks, in order; the serial number of a
\* certificate is the position of its block, and the buffer as a whole is
\* raw when read as DER
BufferOf(ks, raw) ==
    Data([i \in 1..Len(ks) |-> Block(ks[i].type, Der(ks[i].valid, i, ks[i].notAfter))], raw)

\* the buffers: up to MaxBlocks PEM blocks, none of them DER as a whole, and
\* the buffers without a PEM block, which are a DER certificate or are not
Buffers ==
    {BufferOf(ks, BadDer) : ks \in UNION {[1..n -> BlockKinds] : n \in 0..MaxBlocks}}
    \cup {BufferOf(<<>>, Der(TRUE, 1, h)) : h \in NotAfters}

\* the values of time.Now() in the n calls of buildCertificateInfo of one
\* ParseData: the clock does not go back, and an hour may pass
NowSamples(n) ==
    {t \in [1..n -> clock..(clock + 1)] : \A i \in 1..(n - 1) : t[i] <= t[i + 1]}

\* a Parser has been made and ParseData is about to be called on a buffer
ParseInit ==
    /\ paths = <<>>
    /\ files = FilesOf(GoodFile, GoodFile, GoodFile)
    /\ prs \in Parsers
    /\ clock = 0
    /\ call \in {[NoCall EXCEPT !.pc = "called", !.fn = "ParseData", !.fp = fp, !.data = d] :
                    fp \in {File_a, File_b}, d \in Buffers}
    /\ NoPipeline
    /\ mgr = NewManager(0)
    /\ CoordinatorIdle /\ NoApp

\* Parser.ParseData(fp, data) runs and returns
ParseDataReturns ==
    /\ call.pc = "called"
    /\ \E times \in NowSamples(IF Len(call.data.blocks) = 0 THEN 1 ELSE Len(call.data.blocks)) :
          LET out == ParseData(prs, call.fp, call.data, times) IN
          call' = [call EXCEPT !.pc = "returned", !.times = times,
                               !.certs = out.certs, !.err = out.err]
    /\ UNCHANGED << appVars, paths, files, prs, clock, mgr, cancelled, fileCh, fileClosed, resultCh,
                    resultClosed, scanWg, walkVars, workerVars, closer, callerVars,
                    enqueued, panicked, coordVars >>

ParseNext == ParseDataReturns

ParseSpec == ParseInit /\ [][ParseNext]_vars

\* ------------------------------------------------------------------------
\* The path checks on their own: validatePath and ShouldProcessFile called
\* on one argument list, as in TestValidatePath and TestShouldProcessFile
\* ------------------------------------------------------------------------
\* the paths: the separator, the dot, a letter and the backslash
PathChars == {"/", ".", "a", "\\"}
PathStrings == UNION {[1..n -> PathChars] : n \in 0..MaxPathLen}
\* the file names
NameChars == {"a", ".", "p"}
FileNames == UNION {[1..n -> NameChars] : n \in 0..MaxNameLen}
\* the extensions: "", "p", ".p", "a.p"
Extensions == {<<>>, <<"p">>, <<".", "p">>, <<"a", ".", "p">>}
ExtLists == UNION {[1..n -> Extensions] : n \in 0..MaxExts}

\* validatePath or ShouldProcessFile is about to be called
DirectInit ==
    /\ paths = <<>>
    /\ files = FilesOf(GoodFile, GoodFile, GoodFile)
    /\ prs = [includeSubject |-> FALSE, daysThreshold |-> 30]
    /\ clock = 0
    /\ call \in {[NoCall EXCEPT !.pc = "called", !.fn = "validatePath", !.fp = path] :
                    path \in PathStrings}
               \cup {[NoCall EXCEPT !.pc = "called", !.fn = "ShouldProcessFile",
                                    !.f = f, !.ext = ext] :
                        f \in FileNames, ext \in ExtLists}
    /\ NoPipeline
    /\ mgr = NewManager(0)
    /\ CoordinatorIdle /\ NoApp

\* Scanner.validatePath(path) runs and returns
validatePathReturns ==
    /\ call.pc = "called" /\ call.fn = "validatePath"
    /\ call' = [call EXCEPT !.pc = "returned", !.err = validatePath(call.fp)]
    /\ UNCHANGED << appVars, paths, files, prs, clock, mgr, cancelled, fileCh, fileClosed, resultCh,
                    resultClosed, scanWg, walkVars, workerVars, closer, callerVars,
                    enqueued, panicked, coordVars >>

\* Parser.ShouldProcessFile(f, ext) runs and returns
ShouldProcessFileReturns ==
    /\ call.pc = "called" /\ call.fn = "ShouldProcessFile"
    /\ call' = [call EXCEPT !.pc = "returned", !.ok = ShouldProcessFile(call.f, call.ext)]
    /\ UNCHANGED << appVars, paths, files, prs, clock, mgr, cancelled, fileCh, fileClosed, resultCh,
                    resultClosed, scanWg, walkVars, workerVars, closer, callerVars,
                    enqueued, panicked, coordVars >>

DirectNext == validatePathReturns \/ ShouldProcessFileReturns

DirectSpec == DirectInit /\ [][DirectNext]_vars

\* ------------------------------------------------------------------------
\* The configuration on its own: LoadFromFile called on a Config made by
\* New, as in config_test.go
\* ------------------------------------------------------------------------
\* the duration strings of the configuration files
DurationStrings == {"30s", "60s"}
\* the documents: the keys of the README's padecer.json, the timeout given
\* as a duration string, as a number, or left out
ConfigDocs ==
    { ConfigDoc(JNumber(days), JArray(ps), JBool(subject), JString(sendTo), timeout, JArray(exts)) :
        days \in {15, 30},
        ps \in { <<"/custom/path">>, <<"/etc/ssl/certs", "/etc/pki">> },
        subject \in BOOLEAN,
        sendTo \in {"http://example.com", ""},
        timeout \in {JString(d) : d \in DurationStrings} \cup {JNumber(60), JAbsent},
        exts \in { <<".custom">>, <<".pem", ".cer", ".crt", ".key">> } }
\* the files: none at the path, one that is not JSON, one per document
ConfigFiles ==
    { NoConfigFile, ConfigFileOf(TRUE, FALSE, EmptyDoc) }
    \cup { ConfigFileOf(TRUE, TRUE, doc) : doc \in ConfigDocs }

\* cfg := New(); cfg.ConfigFile = configFile
ConfigInit ==
    /\ paths = <<>>
    /\ files = FilesOf(GoodFile, GoodFile, GoodFile)
    /\ prs = [includeSubject |-> FALSE, daysThreshold |-> 30]
    /\ clock = 0
    /\ call \in {[NoCall EXCEPT !.pc = "called", !.fn = "LoadFromFile",
                                 !.cfg = [New EXCEPT !.ConfigFile = "config.json"],
                                 !.file = file] : file \in ConfigFiles}
    /\ NoPipeline
    /\ mgr = NewManager(0)
    /\ CoordinatorIdle /\ NoApp

\* cfg.LoadFromFile() runs and returns
LoadFromFileReturns ==
    /\ call.pc = "called" /\ call.fn = "LoadFromFile"
    /\ LET out == LoadFromFile(call.cfg, call.file) IN
       call' = [call EXCEPT !.pc = "returned", !.cfg = out.cfg, !.err = out.err]
    /\ UNCHANGED << appVars, paths, files, prs, clock, mgr, cancelled, fileCh, fileClosed, resultCh,
                    resultClosed, scanWg, walkVars, workerVars, closer, callerVars,
                    enqueued, panicked, coordVars >>

ConfigNext == LoadFromFileReturns

ConfigSpec == ConfigInit /\ [][ConfigNext]_vars

\* the extension filter where it is used and on its own: a scan, in which
\* walkPath applies ShouldProcessFile to the entries it finds, or a direct
\* call of it
FilterInit == FairInit \/ DirectInit
FilterNext == Next \/ DirectNext
FilterSpec == FilterInit /\ [][FilterNext]_vars

\* ------------------------------------------------------------------------
\* Properties
\* ------------------------------------------------------------------------
RECURSIVE SumCopies(_, _)
SumCopies(S, bag) ==
    IF S = {} THEN 0
    ELSE LET x == CHOOSE y \in S : TRUE
         IN  CopiesIn(x, bag) + SumCopies(S \ {x}, bag)

\* number of results for file fp that the caller has handled
HandledFor(fp) == SumCopies({r \in BagToSet(received) : r.fp = fp}, received)

RECURSIVE SeqToBag(_)
SeqToBag(seq) ==
    IF seq = <<>> THEN EmptyBag ELSE SetToBag({Head(seq)}) (+) SeqToBag(Tail(seq))

RECURSIVE FilesUnder(_, _), FilesOfEntries(_, _, _)
\* the files below directory path, itself at the given depth, that pass the
\* extension filter and lie within the depth limit under directories that
\* pass validation and can be listed, in directory order
FilesUnder(path, depth) ==
    IF depth > MaxDepth \/ validatePath(path) # NoError \/ ReadDir(path).err # NoError
    THEN <<>>
    ELSE FilesOfEntries(path, depth, 1)
FilesOfEntries(path, depth, i) ==
    LET entries == ReadDir(path).entries IN
    IF i > Len(entries) THEN <<>>
    ELSE (IF entries[i].isDir
          THEN FilesUnder(Join(path, entries[i].name), depth + 1)
          ELSE IF ShouldProcessFile(entries[i].name, ScanExt)
               THEN << Join(path, entries[i].name) >>
               ELSE <<>>)
         \o FilesOfEntries(path, depth, i + 1)

RECURSIVE FilesUnderRoots(_)
FilesUnderRoots(roots) ==
    IF roots = <<>> THEN <<>>
    ELSE FilesUnder(Head(roots), 0) \o FilesUnderRoots(Tail(roots))

\* neither cancel() nor Shutdown() has been called
Undisturbed == ~cancelled /\ ~IsShuttingDown(mgr)

\* C1: when the context is never cancelled and Shutdown() is never called,
\* the caller's loop ends (the result channel is closed), and by then the
\* caller has handled exactly one result for every path the walker sent,
\* which are exactly the files under the roots that pass the filter, the
\* depth limit and the directory checks; an empty directory gives no result.
C1_OneResultPerFile ==
    /\ [](caller = "done" /\ Undisturbed =>
            /\ resultClosed = 1
            /\ enqueued = SeqToBag(FilesUnderRoots(paths))
            /\ \A fp \in DOMAIN files : HandledFor(fp) = CopiesIn(fp, enqueued)
            /\ BagCardinality(received) = BagCardinality(enqueued))
    /\ <>(caller = "done" \/ ~Undisturbed)

C1_Witness ==
    /\ caller = "done" /\ Undisturbed
    /\ BagCardinality(enqueued) = 2
    /\ BagCardinality(received) = 2

C3_ResultForEveryReceivedPath ==
    \A w \in Workers : pc[w] \in {"recv", "returned"} => owed[w] = 0

\* C4: while the context is not cancelled, every path sent on the path
\* channel is received by one worker and processed: when the walker and all
\* workers have returned, no path is left in the channel and none was
\* received without a result.
C4_EveryPathProcessed ==
    (AllReturned /\ ~cancelled) =>
        /\ fileCh = <<>>
        /\ \A w \in Workers : owed[w] = 0

\* C5: once the context is cancelled, the walker and every worker return and
\* the result channel is closed, whatever the queues hold and whether or not
\* the caller still receives.
C5_CancelUnblocksAll == cancelled ~> (AllReturned /\ resultClosed = 1)

C5_Witness ==
    /\ cancelled
    /\ walker = "walk" /\ stack # <<>> /\ Top.phase = "send"
    /\ Len(fileCh) = BuffSize
    /\ \A w \in Workers : pc[w] = "returned"

C7_TimeoutAndCancelErrors ==
    [][\A w \in Workers :
          /\ WorkerReadDeadline(w) => res'[w].Error = TimeoutError
          /\ WorkerReadCancelled(w) => res'[w].Error = CancellationError]_vars

\* Parser.ParseFile(fp): the outcome of parsing a file on its own
ParseFile(fp) ==
    LET err == StatAndSizeError(files[fp]) IN
    IF err # NoError THEN [certs |-> <<>>, err |-> err]
    ELSE ParseAfterRead(prs, fp, files[fp],
                        IF files[fp].read = "err" THEN <<"input/output error">> ELSE NoError,
                        clock)

\* the results that exist: held by a worker, in the channel, or received
ResultsInFlight ==
    { res[w] : w \in { v \in Workers : pc[v] \in {"done", "send"} } }
      \cup { resultCh[i] : i \in 1..Len(resultCh) }
      \cup (IF caller = "body" THEN {inHand} ELSE {})
      \cup BagToSet(received)

\* C8: a worker that has sent an outcome, error or not, receives again; a
\* worker returns only on cancellation, on shutdown or when the path channel
\* is closed and empty; and while the context is not cancelled the outcome
\* of a file whose read is not timed is what parsing that file alone gives,
\* whatever the other files are.
C8_FailureIsolated ==
    /\ [][\A w \in Workers :
            /\ (pc[w] = "send" /\ pc'[w] # "send") =>
                   \/ pc'[w] = "recv" /\ resultCh' = Append(resultCh, res[w])
                   \/ pc'[w] = "returned" /\ cancelled
            /\ (pc[w] # "returned" /\ pc'[w] = "returned") =>
                   \/ cancelled
                   \/ IsShuttingDown(mgr) /\ pc[w] = "check"
                   \/ fileClosed > 0 /\ fileCh = <<>> /\ pc[w] = "recv"]_vars
    /\ [](~cancelled =>
            \A r \in ResultsInFlight :
                files[r.fp].read \in {"ok", "err"} =>
                    r = processFileResult(r.fp, ParseFile(r.fp).certs, ParseFile(r.fp).err))

C8_Witness ==
    /\ ~cancelled
    /\ \E r \in BagToSet(received) : r.Error # NoError
    /\ \E r \in BagToSet(received) : r.Error = NoError
    /\ \E w \in Workers : pc[w] = "recv"

\* a worker is reading a file whose read never completes
ReadingHungFile(w) == pc[w] = "reading" /\ files[cur[w]].read = "hang"

\* C9: a worker reading a file whose read never completes leaves the read,
\* calls Done() and holds an error outcome for that file, and then goes on
\* to receive the next path (or returns) unless the caller has stopped
\* receiving.
C9_DeadlineFreesWorker ==
    \A w \in Workers :
        /\ ReadingHungFile(w) ~>
              (pc[w] = "send" /\ res[w].Error # NoError /\ files[res[w].fp].read = "hang")
        /\ ReadingHungFile(w) ~> (pc[w] \in {"recv", "returned"} \/ caller = "stopped")

C9_Witness ==
    /\ ~cancelled
    /\ \E w \in Workers :
          pc[w] = "send" /\ res[w].Error # NoError /\ files[res[w].fp].read = "hang"

\* C10: a new Manager is not shutting down; from the first Shutdown() on it
\* is, and once IsShuttingDown() is true no step makes it false again.
C10_FlagMonotonic ==
    /\ [](IsShuttingDown(mgr) <=> shutdownCalls > 0)
    /\ [][IsShuttingDown(mgr) => IsShuttingDown(mgr')]_vars

C10_Witness ==
    /\ shutdownCalls = MaxShutdownCalls
    /\ IsShuttingDown(mgr)
    /\ mgr.wg > 0
    /\ waitCall = "select"

\* ------------------------------------------------------------------------
\* Manager.Wait against the clock
\* ------------------------------------------------------------------------
\* the step in which Manager.Wait returns
WaitReturns == Waiting /\ WaitReturned'
\* the instant at which Wait was called
WaitCalledAt == timer - mgr.t
\* the goroutines between their Add(1) and their Done()
Working == {c \in Clients : client[c] = "working"}
\* every goroutine has called Done() for each unit it registered
AllFinished == \A c \in Clients : client[c] = "idle" /\ units[c] = MaxUnits

\* C11: Manager.Wait always returns, whatever Add and Done calls are made
\* (an Add never matched by a Done included): a Wait in progress is never
\* found after the instant its timer fires, with a timeout of zero that is
\* the instant of the call, and every Wait in progress returns
C11_WaitAlwaysReturns ==
    /\ [](Waiting => WaitCalledAt <= clock /\ clock <= timer)
    /\ [](Waiting /\ mgr.t = 0 => clock = WaitCalledAt)
    /\ (Waiting ~> WaitReturned)

\* Wait has returned on a zero timeout, at the instant of the call, with a
\* unit of work still registered
C11_Witness ==
    /\ waitCall = "timedout"
    /\ mgr.t = 0
    /\ mgr.wg > 0
    /\ clock = timer

\* C12: Manager.Wait does not return early: with a positive timeout and a
\* counter that was above zero at the call and never came down to zero,
\* Wait returns by the timer's case, at the instant the timer fires
C12_WaitNotEarly ==
    [][WaitReturns /\ mgr.t > 0 /\ zeroAt = -1
        => waitCall' = "timedout" /\ clock = timer /\ clock > WaitCalledAt]_vars

\* Wait has returned on its timer while an Add(1) was never matched
C12_Witness ==
    /\ waitCall = "timedout"
    /\ mgr.t > 0
    /\ zeroAt = -1
    /\ mgr.wg > 0
    /\ clock = timer

\* C13: Manager.Wait returns as soon as the counter is zero, when that
\* happens before the timeout: a Wait that returns with the counter at zero,
\* the counter having been or become zero before the timer fires, returns by
\* the case <-done at that very instant (the instant of the call if the
\* counter was zero then, the instant of the last Done() otherwise)
C13_WaitReturnsWhenDrained ==
    [][WaitReturns /\ mgr.wg = 0 /\ zeroAt # -1 /\ zeroAt < timer
        => waitCall' = "drained" /\ clock = zeroAt /\ clock < timer]_vars

\* every goroutine registered a unit, the last Done() came after the call
\* and before the timer, and Wait returned at the instant of that Done()
C13_Witness ==
    /\ waitCall = "drained"
    /\ AllFinished
    /\ zeroAt > WaitCalledAt
    /\ zeroAt < timer
    /\ clock = zeroAt

\* C14: Add and Done are atomic: in every interleaving of the goroutines'
\* Add(1) and Done() the counter is the number of goroutines between the
\* two, so it is zero once all have finished, and a Wait called then
\* returns at the instant of its call
C14_AddDoneAtomic ==
    /\ [](mgr.wg = Cardinality(Working))
    /\ [](AllFinished => mgr.wg = 0)
    /\ [][WaitReturns /\ AllFinished /\ zeroAt = WaitCalledAt => clock = WaitCalledAt]_vars

\* all goroutines finished, Wait was called with a positive timeout and
\* returned at once by the case <-done
C14_Witness ==
    /\ AllFinished
    /\ waitCall = "drained"
    /\ mgr.t > 0
    /\ zeroAt = WaitCalledAt
    /\ clock = WaitCalledAt

\* ------------------------------------------------------------------------
\* The workers' use of the coordinator
\* ------------------------------------------------------------------------
\* the workers between their shutdownMgr.Add(1) and their shutdownMgr.Done()
Registered == {w \in Workers : pc[w] \in {"reading", "done"}}

\* C15: every Add(1) of a worker is followed by exactly one Done() of the
\* same worker on every path through the per-file processing: the counter
\* is the number of workers between the two calls, a worker reaches the
\* send of its outcome only by the step that calls Done(), leaves the
\* processing of a file by no other step, and the counter goes down only by
\* a worker that had called Add(1)
C15_AddThenDoneOnEveryPath ==
    /\ [](mgr.wg = Cardinality(Registered))
    /\ [][\A w \in Workers :
            /\ (pc[w] # "send" /\ pc'[w] = "send")
                  => pc[w] = "done" /\ mgr'.wg = mgr.wg - 1
            /\ (pc[w] \in {"reading", "done"} /\ pc'[w] # pc[w])
                  => pc'[w] \in {"done", "send"}]_vars
    /\ [][mgr'.wg < mgr.wg => \E w \in Workers : pc[w] = "done" /\ pc'[w] = "send"]_vars

\* after a cancellation one worker is about to send an error outcome, its
\* Done() made, while the other is still reading, its Add(1) unmatched
C15_Witness ==
    /\ cancelled
    /\ mgr.wg = 1
    /\ \E w \in Workers : pc[w] = "send" /\ res[w].Error # NoError
    /\ \E w \in Workers : pc[w] = "reading"

\* C16: once Shutdown() has set the flag no worker registers a unit of
\* work: the counter never goes up in a state where the flag is set
C16_NoAddAfterShutdown ==
    [][mgr'.wg > mgr.wg => ~IsShuttingDown(mgr)]_vars

\* ------------------------------------------------------------------------
\* The walker's cooperative stop
\* ------------------------------------------------------------------------
\* Shutdown() or cancel() has been called
SignalRaised == IsShuttingDown(mgr) \/ cancelled
\* the walker has passed its checks and has one listing or one send in hand
PastCheck == walker = "walk" /\ stack # <<>> /\ Top.phase \in {"list", "send"}
\* the walker takes a step
WalkerStep == stack' # stack \/ walker' # walker
\* a worker has a step to take: a receive, a send or a ctx.Done() case of
\* its select is ready, or it is between two channel operations
WorkerCanStep(w) ==
    \/ pc[w] \in {"check", "add", "reading", "done"}
    \/ pc[w] = "recv" /\ (cancelled \/ fileCh # <<>> \/ fileClosed > 0)
    \/ pc[w] = "send" /\ (cancelled \/ resultClosed > 0 \/ Len(resultCh) < BuffSize)
\* the goroutine that closes the result channel has a step to take
CloserCanStep == closer = "wait" /\ WaitGroupReleased(scanWg)
\* the caller's loop has a step to take
CallerCanStep == caller = "body" \/ (caller = "recv" /\ (resultCh # <<>> \/ resultClosed > 0))
\* the pipeline has come to rest: every goroutine has returned or is blocked
AtRest ==
    /\ ~WalkerCanStep
    /\ \A w \in Workers : ~WorkerCanStep(w)
    /\ ~CloserCanStep
    /\ ~CallerCanStep
\* every call frame but the innermost is in its loop over the entries
OuterFramesInLoop == \A i \in 1..(Len(stack) - 1) : stack[i].phase = "loop"

\* once a signal is raised: a walker with a listing or a send in hand does
\* that one operation (or abandons the send) and is back at a check; a
\* walker at a check enqueues nothing, lists nothing, and returns from its
\* call frame, logging nothing unless the frame is beyond the depth limit;
\* the return of walkPaths closes the path queue
StopsAtChecks ==
    SignalRaised /\ WalkerStep =>
        /\ ~PastCheck'
        /\ IF PastCheck
           THEN Top.phase = "list" => enqueued' = enqueued
           ELSE /\ enqueued' = enqueued
                /\ IF stack = <<>>
                   THEN walker' = "returned" /\ fileClosed' = 1 /\ warnings' = warnings
                   ELSE /\ stack' = Popped
                        /\ (warnings' = warnings
                             \/ (Top.phase = "enter" /\ Top.depth > MaxDepth))

\* C17 as stated: the walker checks the flag and the cancellation signal
\* before each root, on entry to each directory and before each entry, so
\* after either signal it enqueues at most one further path and lists at
\* most one further directory, then every active call frame returns without
\* reporting an error and the path queue is closed: whenever the pipeline
\* has come to rest after a signal, walkPaths has returned and closed it
C17_WalkerStopsCooperatively ==
    /\ [](OuterFramesInLoop)
    /\ [][StopsAtChecks]_vars
    /\ [](SignalRaised /\ AtRest => walker = "returned" /\ fileClosed = 1)

\* C17 amended: as above, but the frames return once the send in hand, if
\* any, has completed or been abandoned on cancellation: when the pipeline
\* has come to rest after a signal, either walkPaths has returned and closed
\* the path queue, or only the flag is set and the walker is blocked in its
\* one further send on a full path queue
C17_WalkerStopsAtChecks ==
    /\ [](OuterFramesInLoop)
    /\ [][StopsAtChecks]_vars
    /\ [](SignalRaised /\ AtRest =>
            \/ walker = "returned" /\ fileClosed = 1
            \/ /\ ~cancelled
               /\ walker = "walk" /\ stack # <<>> /\ Top.phase = "send"
               /\ Len(fileCh) = BuffSize)

\* the flag alone was raised during the walk of the first root and
\* walkPaths has returned and closed the path queue, a root left unwalked
C17_Witness ==
    /\ IsShuttingDown(mgr) /\ ~cancelled
    /\ walker = "returned" /\ fileClosed = 1
    /\ rootIdx <= Len(paths)
    /\ BagCardinality(enqueued) > 0

\* ------------------------------------------------------------------------
\* The records ParseData returns
\* ------------------------------------------------------------------------
IsCertificateBlock(b) == b.type = "CERTIFICATE"
\* the CERTIFICATE blocks of the buffer of the call, in file order
CertificateBlocks == SelectSeq(call.data.blocks, IsCertificateBlock)
\* the call has returned records
ReturnedRecords == call.pc = "returned" /\ call.err = NoError

\* C18: for a buffer of N >= 1 PEM blocks of type CERTIFICATE with
\* well-formed payloads, ParseData returns no error and exactly N records,
\* the i-th built from the i-th CERTIFICATE block in file order (its serial
\* number and expiration) and carrying the path given; blocks of another
\* type contribute no record
C18_OneRecordPerCertificateBlock ==
    (/\ call.pc = "returned"
     /\ Len(CertificateBlocks) >= 1
     /\ \A i \in 1..Len(CertificateBlocks) : CertificateBlocks[i].der.valid)
    => /\ call.err = NoError
       /\ Len(call.certs) = Len(CertificateBlocks)
       /\ \A i \in 1..Len(call.certs) :
            /\ call.certs[i].SerialNumber = CertificateBlocks[i].der.serial
            /\ call.certs[i].ExpirationDate = CertificateBlocks[i].der.notAfter
            /\ call.certs[i].Path = call.fp

\* ParseData returned two records for a buffer of three blocks, the second
\* of which is not a certificate: the records are those of blocks 1 and 3
C18_Witness ==
    /\ ReturnedRecords
    /\ Len(call.data.blocks) = 3
    /\ ~IsCertificateBlock(call.data.blocks[2])
    /\ Len(call.certs) = 2
    /\ call.certs[1].SerialNumber = 1 /\ call.certs[2].SerialNumber = 3
    /\ call.certs[1].ExpirationDate # call.certs[2].ExpirationDate

\* C19: in every record IsExpiringSoon is true exactly when
\* 0 <= DaysUntilExpiry <= threshold, both bounds included
C19_ExpiringSoonIffWithinThreshold ==
    ReturnedRecords =>
        \A i \in 1..Len(call.certs) :
            call.certs[i].IsExpiringSoon
                <=> (0 <= call.certs[i].DaysUntilExpiry
                     /\ call.certs[i].DaysUntilExpiry <= prs.daysThreshold)

\* threshold 30 and three certificates with 90, 15 and 180 days left: the
\* flags are false, true, false
C19_Witness ==
    /\ ReturnedRecords
    /\ prs.daysThreshold = 30
    /\ Len(call.certs) = 3
    /\ call.certs[1].DaysUntilExpiry = 90 /\ ~call.certs[1].IsExpiringSoon
    /\ call.certs[2].DaysUntilExpiry = 15 /\ call.certs[2].IsExpiringSoon
    /\ call.certs[3].DaysUntilExpiry = 180 /\ ~call.certs[3].IsExpiringSoon

\* C20: every record of a certificate whose expiration is earlier than the
\* time.Now() sampled for it, by any amount, has IsExpired true and a
\* strictly negative DaysUntilExpiry
C20_ExpiredHasNegativeDays ==
    ReturnedRecords =>
        \A i \in 1..Len(call.certs) :
            call.certs[i].ExpirationDate < call.times[i]
                => call.certs[i].IsExpired /\ call.certs[i].DaysUntilExpiry < 0

\* C21: in every record DaysUntilExpiry is the floor of (ExpirationDate -
\* sampledNow) / 24h, rounding toward negative infinity whatever the sign,
\* and IsExpired is ExpirationDate < sampledNow for the same sampledNow
C21_DaysIsFloor ==
    ReturnedRecords =>
        \A i \in 1..Len(call.certs) :
            /\ call.certs[i].DaysUntilExpiry
                  = (call.certs[i].ExpirationDate - call.times[i]) \div 24
            /\ call.certs[i].IsExpired
                  <=> call.certs[i].ExpirationDate < call.times[i]

\* C22: the current time is sampled once per call of the parser: two records
\* of one call with the same expiration have the same DaysUntilExpiry,
\* IsExpired and IsExpiringSoon, even if the clock advances during the call
C22_OneNowPerCall ==
    ReturnedRecords =>
        \A i, j \in 1..Len(call.certs) :
            call.certs[i].ExpirationDate = call.certs[j].ExpirationDate
                => /\ call.certs[i].DaysUntilExpiry = call.certs[j].DaysUntilExpiry
                   /\ call.certs[i].IsExpired = call.certs[j].IsExpired
                   /\ call.certs[i].IsExpiringSoon = call.certs[j].IsExpiringSoon

\* C24: a buffer with no CERTIFICATE block that is not a DER certificate
\* either makes ParseData fail with the no-certificate-found error, which
\* is not the parse error of a malformed CERTIFICATE payload
C24_NoCertificateFoundError ==
    (call.pc = "returned" /\ Len(CertificateBlocks) = 0 /\ ~call.data.raw.valid)
        => call.err = NoCertificatesError /\ call.err # ParseError

\* C25: ParseData returns either records and no error, or an error and no
\* record; a CERTIFICATE block with a malformed payload at any position
\* makes the call fail with the parse error and no record
C25_AllOrNothing ==
    call.pc = "returned" =>
        /\ \/ call.err = NoError /\ Len(call.certs) >= 1
           \/ call.err # NoError /\ call.certs = <<>>
        /\ (\E i \in 1..Len(CertificateBlocks) : ~CertificateBlocks[i].der.valid)
              => call.err = ParseError /\ call.certs = <<>>

\* a buffer whose first two blocks are well-formed certificates and whose
\* third is a CERTIFICATE block that does not parse: no record is returned
C25_Witness ==
    /\ call.pc = "returned"
    /\ Len(call.data.blocks) = 3
    /\ \A i \in 1..2 : IsCertificateBlock(call.data.blocks[i]) /\ call.data.blocks[i].der.valid
    /\ IsCertificateBlock(call.data.blocks[3]) /\ ~call.data.blocks[3].der.valid
    /\ call.err = ParseError
    /\ call.certs = <<>>

\* the result of a file the size check rejected
SizeRejection(fp) == ScanResult(fp, <<>>, Wrap("failed to parse %s: %w", SizeError))

\* C23: the size check comes before the read: a worker reads only a file
\* whose metadata gives a size of at most MaxFileSize; a file whose size is
\* above MaxFileSize gets the size error as its result; a file of at most
\* MaxFileSize bytes never gets the size error
C23_SizeCheckedBeforeRead ==
    \A w \in Workers :
        /\ pc[w] = "reading"
              => files[cur[w]].stat /\ files[cur[w]].size <= MaxFileSize
        /\ (pc[w] \in {"done", "send"} /\ res[w].fp \in DOMAIN files)
              => LET file == files[res[w].fp] IN
                 /\ (file.stat /\ file.size > MaxFileSize)
                        => res[w] = SizeRejection(res[w].fp)
                 /\ res[w].Error = SizeRejection(res[w].fp).Error
                        => file.stat /\ file.size > MaxFileSize

\* one worker holds the size error of the file of MaxFileSize + 1 bytes while
\* the other reads a file within the limit
C23_Witness ==
    \E w, v \in Workers :
        /\ pc[w] = "done"
        /\ res[w] = SizeRejection(File_b)
        /\ files[File_b].size = MaxFileSize + 1
        /\ pc[v] = "reading"
        /\ files[cur[v]].size <= MaxFileSize

\* C26: a directory is listed only at a depth of at most MaxDepth, so a
\* path is sent only from such a directory and the nesting of walkPath is
\* bounded; in a walk of /r the directory MaxDepth + 1 levels down is not
\* listed and its file is never enqueued, and once that walk has ended
\* undisturbed the warning for that directory is logged and the files of
\* /r and of the directory MaxDepth levels down have been enqueued
C26_DepthLimit ==
    /\ Len(stack) <= MaxDepth + 2
    /\ \A i \in 1..Len(stack) :
          /\ stack[i].depth = i - 1
          /\ stack[i].phase # "enter" => stack[i].depth <= MaxDepth
    /\ paths = << Root >> =>
          /\ CopiesIn(File_c, enqueued) = 0
          /\ \A i \in 1..Len(stack) : stack[i].phase # "enter" => stack[i].path # Dir_c
          /\ (walker = "returned" /\ Undisturbed)
                => /\ Warning("Maximum directory depth exceeded", Dir_c) \in warnings
                   /\ CopiesIn(File_a, enqueued) = 1
                   /\ CopiesIn(File_b, enqueued) = 1

\* the walk of /r has ended undisturbed: the directory past the limit was
\* refused with a warning, the file next to it was enqueued
C26_Witness ==
    /\ paths = << Root >>
    /\ walker = "returned" /\ Undisturbed
    /\ Warning("Maximum directory depth exceeded", Dir_c) \in warnings
    /\ CopiesIn(File_b, enqueued) = 1
    /\ CopiesIn(File_c, enqueued) = 0

\* C27: validatePath returns an error for every path in which ".." occurs
\* anywhere and for every other path that differs from its cleaned form and
\* does not end with the separator, and nil for every other path; a path of
\* letters and backslashes is among the latter
C27_ValidatePath ==
    (call.fn = "validatePath" /\ call.pc = "returned") =>
        LET path    == call.fp
            dotdot  == \E i \in 1..(Len(path) - 1) : path[i] = "." /\ path[i + 1] = "."
            endsSep == path # <<>> /\ path[Len(path)] = Separator
        IN  /\ dotdot => call.err # NoError
            /\ (Clean(path) # path /\ ~endsSep) => call.err # NoError
            /\ (~dotdot /\ (Clean(path) = path \/ endsSep)) => call.err = NoError
            /\ (path # <<>> /\ \A i \in 1..Len(path) : path[i] \in {"a", "\\"})
                  => call.err = NoError

\* validatePath returned nil for a path that ends with the separator and is
\* not its own cleaned form
C27_Witness ==
    /\ call.fn = "validatePath" /\ call.pc = "returned"
    /\ call.fp = <<"/", "a", "/">>
    /\ Clean(call.fp) = <<"/", "a">>
    /\ call.err = NoError

\* C28: a directory that fails validation or cannot be listed costs only its
\* own subtree: the step that logs its warning returns from that one
\* walkPath call and leaves the callers where they were, so once the walk has
\* ended undisturbed every root has been taken, the later bad directories
\* were still visited, and the files enqueued are those of the tree without
\* the bad directories
C28_BadDirectorySkipsOwnSubtree ==
    /\ [][warnings' # warnings
            => /\ stack' = Popped
               /\ walker' = "walk"
               /\ rootIdx' = rootIdx
               /\ fileClosed' = fileClosed]_vars
    /\ []((walker = "returned" /\ Undisturbed)
            => /\ rootIdx = Len(paths) + 1
               /\ enqueued = SetToBag({File_a, File_b})
               /\ warnings = { Warning("Failed to read directory", MissingRoot),
                               Warning("Invalid path detected", UncleanRoot),
                               Warning("Failed to read directory", Join(Root, Name_u)),
                               Warning("Invalid path detected", Join(Root, Name_v)),
                               Warning("Maximum directory depth exceeded", Dir_c) })

\* the walk has ended undisturbed after two bad roots and two bad
\* directories of /r, and the files of /r were enqueued
C28_Witness ==
    /\ walker = "returned" /\ Undisturbed
    /\ paths = << MissingRoot, UncleanRoot, Root >>
    /\ Warning("Failed to read directory", Join(Root, Name_u)) \in warnings
    /\ Warning("Invalid path detected", UncleanRoot) \in warnings
    /\ enqueued = SetToBag({File_a, File_b})

\* ext is the ending of name
IsSuffix(ext, name) ==
    /\ Len(ext) <= Len(name)
    /\ \A k \in 1..Len(ext) : name[Len(name) - Len(ext) + k] = ext[k]

\* C29: ShouldProcessFile(f, ext) is true when ext is empty and otherwise
\* exactly when some element of ext is an ending of f; the walker sends a
\* path only for an entry that is not a directory and whose name the filter
\* accepts, never sends the file the filter refuses, and by the end of an
\* undisturbed walk of /r has sent the files the filter accepts
C29_ExtensionFilter ==
    /\ (call.fn = "ShouldProcessFile" /\ call.pc = "returned")
          => (call.ok <=> \/ call.ext = <<>>
                          \/ \E i \in 1..Len(call.ext) : IsSuffix(call.ext[i], call.f))
    /\ \A fp \in BagToSet(enqueued) : \E i \in 1..Len(ScanExt) : IsSuffix(ScanExt[i], fp)
    /\ CopiesIn(File_k, enqueued) = 0
    /\ \A n \in 1..Len(stack) :
          stack[n].phase = "send"
              => LET entry == ReadDir(stack[n].path).entries[stack[n].idx] IN
                 /\ ~entry.isDir
                 /\ \E i \in 1..Len(ScanExt) : IsSuffix(ScanExt[i], entry.name)
    /\ (paths = << Root >> /\ walker = "returned" /\ Undisturbed)
          => CopiesIn(File_a, enqueued) = 1 /\ CopiesIn(File_b, enqueued) = 1

\* ShouldProcessFile returned true for a name that ends with the second
\* extension of the list and not with the first
C29_Witness ==
    /\ call.fn = "ShouldProcessFile" /\ call.pc = "returned"
    /\ call.f = <<"p", ".", "p">>
    /\ call.ext = << <<"a", ".", "p">>, <<".", "p">> >>
    /\ call.ok

\* the file has the format the README documents: every key, and the timeout
\* as a duration string
DocumentedFormat(file) ==
    /\ file.exists /\ file.valid
    /\ file.doc.days.kind = "number"
    /\ file.doc.paths.kind = "array"
    /\ file.doc.includeSubject.kind = "bool"
    /\ file.doc.sendTo.kind = "string"
    /\ file.doc.shutdownTimeout.kind = "string"
    /\ file.doc.shutdownTimeout.str \in DurationStrings
    /\ file.doc.extensions.kind = "array"

\* the duration a duration string denotes
DurationOf(str) == IF str = "60s" THEN Seconds(60) ELSE Seconds(30)

\* C30: LoadFromFile on a file in the documented format, whose
\* shutdownTimeout is a duration string, returns no error and leaves in the
\* Config that duration and the file's days, paths, includeSubject, sendTo
\* and extensions
C30_LoadFromFileAcceptsDocumentedFormat ==
    (call.fn = "LoadFromFile" /\ call.pc = "returned" /\ DocumentedFormat(call.file))
        => /\ call.err = NoError
           /\ call.cfg.ShutdownTimeout = DurationOf(call.file.doc.shutdownTimeout.str)
           /\ call.cfg.Days = call.file.doc.days.num
           /\ call.cfg.Paths = call.file.doc.paths.arr
           /\ call.cfg.IncludeSubject = call.file.doc.includeSubject.bool
           /\ call.cfg.SendTo = call.file.doc.sendTo.str
           /\ call.cfg.Extensions = call.file.doc.extensions.arr

\* C31: the Manager on which the signal handler calls Shutdown() is the one
\* the walker, the workers and execute's loop consult: once the handler has
\* called Shutdown(), their IsShuttingDown() returns true, whatever the
\* configured shutdown timeout
C31_SignalReachesScanner ==
    proc.handler \in {"cancel", "done"} => IsShuttingDown(mgr)

\* C32: once a signal has arrived while execute runs, execute returns and
\* main reaches "shutdown completed": the loop over resultCh ends, Wait is
\* called and returns, and a Wait in progress is never found after the
\* instant its timer fires; so also when a worker was blocked in its send on
\* a full resultCh at the time of the signal
C32_ExecuteReturnsAfterSignal ==
    /\ (proc.handler # "wait") ~> (proc.pc = "completed")
    /\ [](Waiting => clock <= timer)
    /\ [](proc.pc = "completed" => WaitReturned /\ caller \in {"done", "stopped"})

\* main has completed after a signal that found a worker blocked in its send
C32_Witness ==
    /\ proc.pc = "completed"
    /\ proc.handler = "done"
    /\ proc.blocked

\* the workers between shutdownMgr.Add(1) and shutdownMgr.Done()
InFlight == {w \in Workers : pc[w] \in {"reading", "done"}}

\* C33: the counter of the Scanner's Manager is the number of workers
\* between Add(1) and Done(), so it lies between zero and the worker count;
\* it is zero whenever resultCh is closed, so a Wait called after the loop
\* over resultCh has ended by the close returns at the instant of the call,
\* on the drained counter and not on its timer
C33_CounterIsWorkersInFlight ==
    /\ mgr.wg = Cardinality(InFlight)
    /\ 0 <= mgr.wg /\ mgr.wg <= workers
    /\ (resultClosed >= 1 => mgr.wg = 0)
    /\ (caller = "done" /\ (Waiting \/ WaitReturned))
          => clock = WaitCalledAt /\ waitCall # "timedout"

\* every worker has a file in flight
C33_Witness ==
    /\ proc.pc = "execute"
    /\ Cardinality(InFlight) = workers
    /\ mgr.wg = workers

\* C34: the flag and the counter of a Manager are independent: a step that
\* changes the flag (Shutdown) leaves the counter, a step that changes the
\* counter (Add, Done) leaves the flag, the steps of Wait leave both, and
\* the timeout is never changed; work registered before Shutdown() is still
\* counted after it, and a Wait called once all work has been completed
\* returns at the instant of the call
C34_FlagAndCounterIndependent ==
    /\ [][/\ (mgr'.running # mgr.running => mgr'.wg = mgr.wg)
          /\ (mgr'.wg # mgr.wg => mgr'.running = mgr.running)
          /\ mgr'.t = mgr.t
          /\ (ShutdownCalled => mgr'.wg = mgr.wg /\ IsShuttingDown(mgr'))
          /\ ((WaitCalled \/ WaitSteps) => mgr' = mgr)]_vars
    /\ [](mgr.wg = Cardinality(Working))
    /\ []((Waiting /\ IsShuttingDown(mgr) /\ AllFinished /\ zeroAt = WaitCalledAt)
            => clock = WaitCalledAt)

\* Shutdown() has been called with the work of every goroutine registered,
\* all of it has then been completed, and Wait has returned on the drained
\* counter at the instant it was called
C34_Witness ==
    /\ IsShuttingDown(mgr)
    /\ AllFinished
    /\ mgr.wg = 0
    /\ waitCall = "drained"
    /\ clock = WaitCalledAt

\* C35: once the context is cancelled no worker receives a path from fileCh
\* and no worker starts on a file (Add(1) and processFileWithContext), also
\* when paths are still buffered in fileCh
C35_NoReceiveAfterCancel ==
    [][cancelled => \A w \in Workers :
                      /\ ~(pc[w] = "recv" /\ pc'[w] = "check")
                      /\ ~(pc[w] = "add" /\ pc'[w] \in {"reading", "done"})]_vars

\* C36: no file path is put on fileCh more than once in one Scan, whatever
\* the list of roots
C36_NoPathEnqueuedTwice ==
    \A fp \in BagToSet(enqueued) : CopiesIn(fp, enqueued) <= 1

\* C36, amended: a file path is put on fileCh at most once in the walk of
\* each root of the list, so at most once while the first root is walked
\* and at most as often as roots have been taken; a root that is repeated
\* has its files enqueued again
C36_OncePerRootWalk ==
    \A fp \in BagToSet(enqueued) :
        /\ CopiesIn(fp, enqueued) <= rootIdx - 1
        /\ CopiesIn(fp, enqueued) <= Len(paths)

\* the walk of the repeated root has ended undisturbed: each of its files
\* was enqueued twice
C36_Witness ==
    /\ paths = << Root, Root >>
    /\ walker = "returned" /\ Undisturbed
    /\ CopiesIn(File_a, enqueued) = 2
    /\ CopiesIn(File_b, enqueued) = 2

\* C37: no record is both expired and expiring soon, whatever the
\* certificate, the sampled time and the threshold (which is not negative)
C37_ExpiredIsNotExpiringSoon ==
    (ReturnedRecords /\ prs.daysThreshold >= 0)
        => \A i \in 1..Len(call.certs) :
               call.certs[i].IsExpired => ~call.certs[i].IsExpiringSoon

\* the entries of a list for the host and path of alert a, and the others
SamePair(a, b) == a.Host = b.Host /\ a.Path = b.Path
OfPair(alerts, a) == SelectSeq(alerts, LAMBDA b : SamePair(a, b))
OfOtherPairs(alerts, a) == SelectSeq(alerts, LAMBDA b : ~SamePair(a, b))

\* C38: with requests handled one at a time the stored list never holds two
\* entries of one host and path; the request that is answered 200 leaves its
\* alert as the only entry of its pair and the entries of the other pairs as
\* they were when it arrived, in their order; a request answered 400 does
\* not touch the file
C38_OneEntryPerPair ==
    /\ [](\A i, j \in 1..Len(alertsFile.alerts) :
              SamePair(alertsFile.alerts[i], alertsFile.alerts[j]) => i = j)
    /\ [](\A h \in Requests : handlers[h].pc \in {"save", "write"}
              => handlers[h].loaded = alertsFile.alerts \/ handlers[h].pc = "write")
    /\ [][\A h \in Requests :
            (handlers[h].pc = "write" /\ handlers'[h].pc = "responded")
                => /\ handlers'[h].status = 200
                   /\ alertsFile'.state = "ok"
                   /\ OfPair(alertsFile'.alerts, handlers[h].alert) = << handlers[h].alert >>
                   /\ OfOtherPairs(alertsFile'.alerts, handlers[h].alert)
                         = OfOtherPairs(handlers[h].loaded, handlers[h].alert)]_vars
    /\ [][\A h \in Requests :
            (handlers[h].pc = "idle" /\ handlers'[h].status = 400)
                => alertsFile' = alertsFile /\ handlers'[h].pc = "responded"]_vars
    /\ [](\A h \in Requests : handlers[h].status = 400 <=>
              /\ handlers[h].pc = "responded"
              /\ \/ handlers[h].alert = NoAlert
                 \/ handlers[h].alert.Host = ""
                 \/ handlers[h].alert.Path = ""
                 \/ handlers[h].alert.ExpirationDate = "zero")

\* two requests for the stored pair h1, p1 have been answered 200 one after
\* the other: the file holds the alert of the later one only
C38_Witness ==
    /\ \A h \in Requests : handlers[h].pc = "responded" /\ handlers[h].status = 200
    /\ handlers[1].alert = Alert("h1", "p1", "e2", "sent")
    /\ handlers[2].alert = Alert("h1", "p1", "e1", "now")
    /\ handlers[2].loaded = << handlers[1].alert >>
    /\ alertsFile = AlertsFileOf("ok", << handlers[2].alert >>)

\* C39: when two requests for different pairs are handled concurrently and
\* both are answered 200, both alerts are in the stored list afterwards
C39_NoAcceptedAlertLost ==
    \A g, h \in Requests :
        (/\ g # h
         /\ handlers[g].pc = "responded" /\ handlers[g].status = 200
         /\ handlers[h].pc = "responded" /\ handlers[h].status = 200
         /\ ~SamePair(handlers[g].alert, handlers[h].alert))
            => /\ \E i \in 1..Len(alertsFile.alerts) : alertsFile.alerts[i] = handlers[g].alert
               /\ \E i \in 1..Len(alertsFile.alerts) : alertsFile.alerts[i] = handlers[h].alert

====
